---- MODULE Spec2Model ----
(***************************************************************************)
(* A model of the autoheal repository: the legacy locator-healing          *)
(* Orchestrator (ci_orchestrator.py), its collaborators (failure_detector, *)
(* patch_validator, artifact_store) and the batch mapping updater          *)
(* (mapping_updater.py).                                                   *)
(***************************************************************************)
EXTENDS Integers, Sequences, FiniteSets, TLC

\* ------------------------------------------------------------------------
\* Python values
\* ------------------------------------------------------------------------

\* Python's None, as a record so that it compares with the records below.
None == [tag |-> "None"]

\* A Python str holding an error text "<cls>: <msg>".
ErrorString(cls, msg) == [tag |-> "str", cls |-> cls, msg |-> msg]

\* A Python str, as a record so that it compares with None.
PyStr(text) == [tag |-> "str", text |-> text]

\* bool(x) of the values a test's run_test() entry point returns here.
RetValues == {"True", "False", "None", "0", "1"}
bool(v) == v \in {"True", "1"}

\* ------------------------------------------------------------------------
\* failure_detector.run_test_and_capture
\* ------------------------------------------------------------------------

\* What the named test unit does when it is imported, reloaded and run.
TestUnits ==
    {[stage |-> "import", cls |-> "ModuleNotFoundError", msg |-> "No module named t"],
     [stage |-> "reload", cls |-> "SyntaxError", msg |-> "invalid syntax"],
     [stage |-> "run", cls |-> "AssertionError", msg |-> ""]}
    \cup {[stage |-> "returns", value |-> v] : v \in RetValues}

\* The mutated detector: a falsy return is reported without an error text.
run_test_and_capture_NoError(unit) ==
    IF unit.stage = "returns"
    THEN [passed |-> bool(unit.value), error |-> None]
    ELSE [passed |-> FALSE, error |-> ErrorString(unit.cls, unit.msg)]

\* run_test_and_capture(test_module_path): (passed, error).
run_test_and_capture(unit) ==
    IF unit.stage = "returns"
    THEN IF bool(unit.value)
         THEN [passed |-> TRUE, error |-> None]
         ELSE [passed |-> FALSE,
               error |-> ErrorString("AssertionError", "locator not found")]
    ELSE \* except Exception as e: f"{e.__class__.__name__}: {e}"
         [passed |-> FALSE, error |-> ErrorString(unit.cls, unit.msg)]

\* ------------------------------------------------------------------------
\* Files of the tests directory
\* ------------------------------------------------------------------------

\* tests_dir as the file system has it: a directory, a regular file, nothing.
TestsDirKinds == {"dir", "file", "missing"}

\* The two fixed target test artifacts of run_once.
TargetNames == {"failing_test.py", "ios_cart_test.py"}

Absent == [tag |-> "absent"]
File(text, readable) == [tag |-> "file", text |-> text, readable |-> readable]

\* The text of a test artifact is a sequence of lines: the statement
\* `LOCATOR = "<value>"` or another line of code. "" is the text of no line.
LocatorLine(value) == [kind |-> "LOCATOR", value |-> value]
CodeLine(text) == [kind |-> "code", text |-> text]

Texts ==
    {<<>>,
     <<LocatorLine(<<"b", "t", "n", "O", "l", "d">>)>>,
     <<CodeLine("import driver"), LocatorLine(<<"b", "t", "n", "O", "l", "d">>), CodeLine("run_test()")>>}
FileStates == {Absent, File(<<LocatorLine(<<"b", "t", "n", "O", "l", "d">>)>>, FALSE)}
              \cup {File(t, TRUE) : t \in Texts}

\* os.path.isdir(os.path.dirname(test_file) or ".")
isdir(dirKind) == dirKind = "dir"

\* A diff is the sequence of its hunks; "" is the diff without a hunk.
EmptyDiff == <<>>

\* _safe_read(path): the text, "" when the file cannot be opened.
safe_read(f) == IF f.tag = "file" /\ f.readable THEN f.text ELSE <<>>

\* open(path, "w") succeeds only below an existing directory.
CanOpenForWrite(dirKind) == isdir(dirKind)

\* The file after open(path, "w").write(text).
Written(f, text) ==
    File(text, IF f.tag = "file" THEN f.readable ELSE TRUE)

\* ------------------------------------------------------------------------
\* patch_validator
\* ------------------------------------------------------------------------

\* The mutated validator: the directory test is inverted.
validate_InvertedCheck(workspace, patchIsDict) ==
    IF workspace = "" \/ isdir(workspace)
    THEN [ok |-> FALSE, tests_passed |-> FALSE, policy_ok |-> TRUE,
          changed_lines |-> 0, reason |-> "Workspace not found"]
    ELSE [ok |-> TRUE, tests_passed |-> TRUE, policy_ok |-> TRUE,
          changed_lines |-> 0, reason |-> "none"]

\* The mutated validator: the patch is tested before the workspace.
validate_PatchFirst(workspace, patchIsDict) ==
    IF ~patchIsDict
    THEN [ok |-> FALSE, tests_passed |-> FALSE, policy_ok |-> TRUE,
          changed_lines |-> 0, reason |-> "Patch is not a dict"]
    ELSE IF workspace = "" \/ ~isdir(workspace)
    THEN [ok |-> FALSE, tests_passed |-> FALSE, policy_ok |-> TRUE,
          changed_lines |-> 0, reason |-> "Workspace not found"]
    ELSE [ok |-> TRUE, tests_passed |-> TRUE, policy_ok |-> TRUE,
          changed_lines |-> 0, reason |-> "none"]

\* PatchValidator.validate(workspace, patch); workspace is "" or the kind of
\* the path, patchIsDict is isinstance(patch, dict).
validate(workspace, patchIsDict) ==
    IF workspace = "" \/ ~isdir(workspace)
    THEN [ok |-> FALSE, tests_passed |-> FALSE, policy_ok |-> TRUE,
          changed_lines |-> 0, reason |-> "Workspace not found"]
    ELSE IF ~patchIsDict
    THEN [ok |-> FALSE, tests_passed |-> FALSE, policy_ok |-> TRUE,
          changed_lines |-> 0, reason |-> "Patch is not a dict"]
    ELSE [ok |-> TRUE, tests_passed |-> TRUE, policy_ok |-> TRUE,
          changed_lines |-> 0, reason |-> "none"]

\* The number of positional parameters of patch_validator.apply_and_run.
ApplyAndRunParams == 2

\* apply_and_run(*args): a call with another number of arguments raises
\* TypeError, otherwise it delegates to PatchValidator({}).validate.
apply_and_run(args) ==
    IF Len(args) # ApplyAndRunParams
    THEN [tag |-> "raised", cls |-> "TypeError"]
    ELSE [tag |-> "returned", value |-> validate(args[1], TRUE)]

\* ------------------------------------------------------------------------
\* Text of labels and locators: a sequence of characters
\* ------------------------------------------------------------------------

UpperChars == <<"A", "B", "C", "D", "E", "F", "G", "H", "I", "J", "K", "L", "M",
                "N", "O", "P", "Q", "R", "S", "T", "U", "V", "W", "X", "Y", "Z">>
LowerChars == <<"a", "b", "c", "d", "e", "f", "g", "h", "i", "j", "k", "l", "m",
                "n", "o", "p", "q", "r", "s", "t", "u", "v", "w", "x", "y", "z">>

\* str.lower()
lower(s) ==
    [i \in DOMAIN s |->
        IF \E k \in DOMAIN UpperChars : UpperChars[k] = s[i]
        THEN LowerChars[CHOOSE k \in DOMAIN UpperChars : UpperChars[k] = s[i]]
        ELSE s[i]]

\* The first position at which sub occurs in s, 0 when it does not.
Find(s, sub) ==
    LET hits == {i \in 1..(Len(s) - Len(sub) + 1) :
                    SubSeq(s, i, i + Len(sub) - 1) = sub}
    IN IF hits = {} THEN 0 ELSE CHOOSE i \in hits : \A j \in hits : i <= j

\* `sub in s`
Contains(s, sub) == Find(s, sub) # 0

\* s.split(sep)[1], for an s that contains sep: the text between the first
\* occurrence of sep and the next one (or the end).
SplitSecond(s, sep) ==
    LET rest == SubSeq(s, Find(s, sep) + Len(sep), Len(s))
        j == Find(rest, sep)
    IN IF j = 0 THEN rest ELSE SubSeq(rest, 1, j - 1)

\* A str that may be None in its place: the text, as a record.
Text(chars) == [tag |-> "str", chars |-> chars]

\* The characters of `label`, `"` and of the predicate `label == "<l>"`.
LabelWord == <<"l", "a", "b", "e", "l">>
DQ == <<"\"">>
LabelPredicate(l) == LabelWord \o <<" ", "=", "=", " ">> \o DQ \o l \o DQ

\* ------------------------------------------------------------------------
\* ios_xml
\* ------------------------------------------------------------------------

\* An element of the accessibility tree: its attributes type, label, name and
\* accessibilityIdentifier (<<>> when the attribute is absent or empty; the
\* type by its name) and its children in document order.
Node(type, label, name, aid, children) ==
    [type |-> type, label |-> label, name |-> name, aid |-> aid,
     children |-> children]

\* t.endswith("Button")
EndsWithButton(type) == type \in {"XCUIElementTypeButton", "Button"}

\* A snapshot text: whether it is well-formed XML and the root element it
\* then parses to, and the values of the id="..." attributes in it, in the
\* order of the text.
Snapshot(parses, root, ids) == [parses |-> parses, root |-> root, ids |-> ids]

\* parse_xml(xml_text): the root element, None on ET.ParseError.
parse_xml(snap) == IF snap.parses THEN snap.root ELSE None

\* The nodes below the stack in document order (what a traversal that
\* visits the children first to last yields).
RECURSIVE iter_nodes_DocumentOrder(_)
iter_nodes_DocumentOrder(stack) ==
    IF stack = <<>> THEN <<>>
    ELSE <<Head(stack)>>
         \o iter_nodes_DocumentOrder(Head(stack).children \o Tail(stack))

\* iter_nodes(root), from the stack it keeps: the last element of the stack
\* is popped and yielded, its children are pushed in document order.
RECURSIVE iter_nodes(_)
iter_nodes(stack) ==
    IF stack = <<>> THEN <<>>
    ELSE LET n == stack[Len(stack)] IN
         <<n>> \o iter_nodes(SubSeq(stack, 1, Len(stack) - 1) \o n.children)

\* The mutated search: the last button with the label instead of the first.
find_button_with_label_Last(root, label_exact) ==
    LET nodes == iter_nodes(<<root>>)
        hits == {i \in DOMAIN nodes :
                    EndsWithButton(nodes[i].type) /\ nodes[i].label = label_exact}
    IN IF hits = {} THEN None
       ELSE nodes[CHOOSE i \in hits : \A j \in hits : i >= j]

\* find_button_with_label(root, label_exact): the node, or None.
find_button_with_label(root, label_exact) ==
    LET nodes == iter_nodes(<<root>>)
        hits == {i \in DOMAIN nodes :
                    EndsWithButton(nodes[i].type) /\ nodes[i].label = label_exact}
    IN IF hits = {} THEN None
       ELSE nodes[CHOOSE i \in hits : \A j \in hits : i <= j]

\* The de-duplication of find_button_label_candidates: first occurrences.
RECURSIVE Uniq(_, _)
Uniq(out, seen) ==
    IF out = <<>> THEN <<>>
    ELSE IF Head(out) \in seen THEN Uniq(Tail(out), seen)
    ELSE <<Head(out)>> \o Uniq(Tail(out), seen \cup {Head(out)})

\* The mutated candidates: the labels of all elements, buttons or not.
find_button_label_candidates_AnyType(root) ==
    LET nodes == iter_nodes(<<root>>)
        buttons == SelectSeq(nodes, LAMBDA n : n.label # <<>>)
    IN Uniq([i \in DOMAIN buttons |-> buttons[i].label], {})

\* find_button_label_candidates(root)
find_button_label_candidates(root) ==
    LET nodes == iter_nodes(<<root>>)
        buttons == SelectSeq(nodes,
                       LAMBDA n : EndsWithButton(n.type) /\ n.label # <<>>)
    IN Uniq([i \in DOMAIN buttons |-> buttons[i].label], {})

\* ------------------------------------------------------------------------
\* ios_patch_generator
\* ------------------------------------------------------------------------

\* target_label: the text between the first two quotes after the first
\* `label` of the old locator; the whole locator when it has no `label` or no
\* quote, or when the split raises.
target_label_of(old) ==
    IF Contains(old, LabelWord) /\ Contains(old, DQ)
    THEN LET piece == SplitSecond(old, LabelWord) IN
         IF Contains(piece, DQ) THEN SplitSecond(piece, DQ) ELSE old
    ELSE old

\* likely_new: the first candidate that contains the target label, case
\* ignored, and is not the target label; else the first candidate; else None.
likely_new_of(target_label, candidates) ==
    LET hits == {i \in DOMAIN candidates :
                    /\ Contains(lower(candidates[i]), lower(target_label))
                    /\ candidates[i] # target_label}
    IN IF hits # {}
       THEN Text(candidates[CHOOSE i \in hits : \A j \in hits : i <= j])
       ELSE IF candidates # <<>> THEN Text(candidates[1])
       ELSE None

\* generate_ios_locator_patch(old_predicate_or_label, xml_text,
\* prefer_accessibility)
generate_ios_locator_patch(old, snap, prefer_accessibility) ==
    LET root == parse_xml(snap) IN
    IF root = None THEN None
    ELSE LET target_label == target_label_of(old)
             likely_new == likely_new_of(target_label,
                                         find_button_label_candidates(root))
             chosen_node == IF likely_new # None
                            THEN find_button_with_label(root, likely_new.chars)
                            ELSE None
             acc_id == IF chosen_node = None THEN <<>>
                       ELSE IF chosen_node.name # <<>> THEN chosen_node.name
                       ELSE chosen_node.aid
         IN IF prefer_accessibility /\ chosen_node # None /\ acc_id # <<>>
            THEN [tag |-> "patch", strategy |-> "accessibility_id",
                  value |-> acc_id, label |-> likely_new.chars]
            ELSE IF likely_new # None
            THEN [tag |-> "patch", strategy |-> "ios_predicate",
                  value |-> LabelPredicate(likely_new.chars),
                  label |-> likely_new.chars]
            ELSE None

\* ------------------------------------------------------------------------
\* llm_patch_generator and the retriever behind it
\* ------------------------------------------------------------------------

\* The prefix convention and the preference list of the web heuristic.
IdPrefix == <<"b", "t", "n">>
PreferredWords ==
    << <<"p", "r", "o", "c", "e", "e", "d">>,
       <<"c", "o", "n", "t", "i", "n", "u", "e">>,
       <<"s", "u", "b", "m", "i", "t">>,
       <<"c", "h", "e", "c", "k", "o", "u", "t">> >>

\* s.startswith(prefix), on text.
HasPrefix(s, prefix) ==
    Len(prefix) <= Len(s) /\ SubSeq(s, 1, Len(prefix)) = prefix

\* SimpleRetriever(html_text).guess_replacement_for(old_id), from the ids of
\* the snapshot: the preference list in the outer loop, the prefixed
\* candidates in the inner loop; else the first prefixed candidate; else the
\* first id; else None.
guess_replacement_for(ids, old_id) ==
    LET candidates == SelectSeq(ids, LAMBDA i : HasPrefix(i, IdPrefix))
        preferred(w) == {k \in DOMAIN candidates :
                            Contains(lower(candidates[k]), PreferredWords[w])}
        words == {w \in DOMAIN PreferredWords : preferred(w) # {}}
    IN IF words # {}
       THEN LET w == CHOOSE x \in words : \A y \in words : x <= y IN
            Text(candidates[CHOOSE k \in preferred(w) :
                                \A j \in preferred(w) : k <= j])
       ELSE IF candidates # <<>> THEN Text(candidates[1])
       ELSE IF ids # <<>> THEN Text(ids[1])
       ELSE None

\* The mutated generator: the old id is proposed again.
generate_locator_patch_OldId(old_id, snap) ==
    IF guess_replacement_for(snap.ids, old_id) = None THEN None
    ELSE [tag |-> "patch", new_id |-> old_id]

\* generate_locator_patch(old_id, html_text)
generate_locator_patch(old_id, snap) ==
    LET new_id == guess_replacement_for(snap.ids, old_id) IN
    IF new_id = None \/ new_id.chars = <<>> THEN None
    ELSE [tag |-> "patch", new_id |-> new_id.chars]

\* ------------------------------------------------------------------------
\* mapping_updater: YAML scalars
\* ------------------------------------------------------------------------

\* A string is a sequence of characters; "TAB" is the tab character, "SP" a
\* space. In the text of a double-quoted YAML scalar "ESC_TAB" is the escape
\* \t of a tab.
Range(seq) == {seq[i] : i \in DOMAIN seq}

\* text.replace("\t", "  ") of _load_yaml, on the text of one scalar.
RECURSIVE ReplaceTabs(_)
ReplaceTabs(raw) ==
    IF raw = <<>> THEN <<>>
    ELSE (IF Head(raw) = "TAB" THEN <<"SP", "SP">> ELSE <<Head(raw)>>)
         \o ReplaceTabs(Tail(raw))

\* The YAML parser's reading of the escapes of a double-quoted scalar.
Unescape(raw) == [i \in DOMAIN raw |-> IF raw[i] = "ESC_TAB" THEN "TAB" ELSE raw[i]]

\* The YAML emitter's escapes in a double-quoted scalar.
Escape(chars) == [i \in DOMAIN chars |-> IF chars[i] = "TAB" THEN "ESC_TAB" ELSE chars[i]]

\* A scalar of a YAML file: its quoting style and its text.
Scalar(style, raw) == [style |-> style, raw |-> raw]

\* A str in memory: its characters and, under ruamel's preserve_quotes, the
\* quoting it carries ("plain" for a bare str).
Str(q, chars) == [q |-> q, chars |-> chars]

\* No "identifier" key in a record: item.get("identifier") is None.
NoField == [q |-> "None", chars |-> <<"None">>]

\* The mutated loader: the tabs are replaced after the escapes are read.
load_scalar_TabsLast(s, ruamel) ==
    Str(IF ruamel THEN s.style ELSE "plain",
        ReplaceTabs(IF s.style = "double" THEN Unescape(s.raw) ELSE s.raw))

\* _load_yaml on one scalar: the tabs of the text are replaced by two spaces,
\* then the parser reads the scalar.
load_scalar(s, ruamel) ==
    LET text == ReplaceTabs(s.raw) IN
    Str(IF ruamel THEN s.style ELSE "plain",
        IF s.style = "double" THEN Unescape(text) ELSE text)

\* _needs_quote(val)
needs_quote(chars) ==
    \/ \E c \in Range(chars) : c \in {":", "|", "#"}
    \/ (chars # <<>> /\ Head(chars) \in {"/", "[", "(", "*", "@"})
    \/ \E c \in Range(chars) : c \in {"@", "$"}

\* _quote_identifier(value): a single-quoted scalar string under ruamel.
quote_identifier(chars, ruamel) ==
    IF ruamel THEN Str("single", chars) ELSE Str("plain", chars)

\* _save_yaml on one str: a tab cannot be written plain or single-quoted, the
\* emitter then writes the scalar double-quoted with the tab escaped.
dump_scalar(v) ==
    IF "TAB" \in Range(v.chars)
    THEN Scalar("double", Escape(v.chars))
    ELSE Scalar(v.q, v.chars)

\* ------------------------------------------------------------------------
\* mapping_updater: documents
\* ------------------------------------------------------------------------

\* DEFAULT_FILES, each name as the words it is made of.
DEFAULT_FILES ==
    << <<"mappings", "android">>, <<"mappings", "ios">>,
       <<"mappings", "android", "spanish">>, <<"mappings", "ios", "spanish">> >>

\* The module directories below modules_root, as sorted(glob(...)) yields them.
Modules == <<"m1", "m2">>

\* The mutated classifier: the two platform words are exchanged.
platform_from_filename_Swapped(fname) ==
    IF "android" \in Range(fname) THEN "ios"
    ELSE IF "ios" \in Range(fname) THEN "android"
    ELSE "None"

\* _platform_from_filename(filename)
platform_from_filename(fname) ==
    IF "android" \in Range(fname) THEN "android"
    ELSE IF "ios" \in Range(fname) THEN "ios"
    ELSE "None"

\* One entry of a platform list: a {name, identifier} record, or (dict FALSE)
\* something that is no mapping.
Item(name, identifier) == [dict |-> TRUE, name |-> name, identifier |-> identifier]
NonDictItem == [dict |-> FALSE, name |-> "", identifier |-> NoField]

\* The value of a platform key of a document: absent (or no list), or a list.
NoKey == [present |-> FALSE, items |-> <<>>]
List(items) == [present |-> TRUE, items |-> items]

\* What is at a path of the tests repo.
Missing == [tag |-> "missing"]
Malformed == [tag |-> "malformed"]
EmptyDoc == [tag |-> "empty"]
Yaml(android, ios, writable) ==
    [tag |-> "yaml", android |-> android, ios |-> ios, writable |-> writable]

\* _load_yaml(path): the document, or the exception of the parser. An empty
\* document loads as None under ruamel and as {} under PyYAML.
load_yaml(f, ruamel) ==
    IF f.tag = "malformed" THEN [tag |-> "raised", error |-> "ParserError"]
    ELSE IF f.tag = "empty"
    THEN [tag |-> "doc", none |-> ruamel, android |-> NoKey, ios |-> NoKey]
    ELSE LET load_list(l) ==
                 [present |-> l.present,
                  items |-> [i \in DOMAIN l.items |->
                      [l.items[i] EXCEPT !.identifier =
                          IF @ = NoField THEN NoField ELSE load_scalar(@, ruamel)]]]
         IN [tag |-> "doc", none |-> FALSE,
             android |-> load_list(f.android), ios |-> load_list(f.ios)]

\* _save_yaml(path, obj): the file written from the document in memory.
save_yaml(doc) ==
    LET dump_list(l) ==
            [present |-> l.present,
             items |-> [i \in DOMAIN l.items |->
                 [l.items[i] EXCEPT !.identifier =
                     IF @ = NoField THEN NoField ELSE dump_scalar(@)]]]
    IN Yaml(dump_list(doc.android), dump_list(doc.ios), TRUE)

\* The mutated update: every record of the list is taken for the one named
\* logical_name.
update_mapping_AnyName(doc, platform_key, logical_name, new_identifier, ruamel) ==
    IF doc.none THEN [tag |-> "raised", error |-> "TypeError"]
    ELSE IF ~doc[platform_key].present
    THEN [tag |-> "ok", doc |-> doc, changed |-> FALSE]
    ELSE LET items == doc[platform_key].items
             hit(i) == items[i].dict
             differs(i) == \/ items[i].identifier = NoField
                           \/ items[i].identifier.chars # new_identifier
         IN [tag |-> "ok",
             doc |-> [doc EXCEPT ![platform_key].items =
                        [i \in DOMAIN items |->
                           IF hit(i) /\ differs(i)
                           THEN [items[i] EXCEPT !.identifier =
                                    Str("plain", new_identifier)]
                           ELSE items[i]]],
             changed |-> \E i \in DOMAIN items : hit(i) /\ differs(i)]

\* The mutated update: the identifier is rewritten and counted without the
\* comparison with the current one.
update_mapping_NoCompare(doc, platform_key, logical_name, new_identifier, ruamel) ==
    IF doc.none THEN [tag |-> "raised", error |-> "TypeError"]
    ELSE IF ~doc[platform_key].present
    THEN [tag |-> "ok", doc |-> doc, changed |-> FALSE]
    ELSE LET items == doc[platform_key].items
             hit(i) == items[i].dict /\ items[i].name = logical_name
         IN [tag |-> "ok",
             doc |-> [doc EXCEPT ![platform_key].items =
                        [i \in DOMAIN items |->
                           IF hit(i)
                           THEN [items[i] EXCEPT !.identifier =
                                    Str("plain", new_identifier)]
                           ELSE items[i]]],
             changed |-> \E i \in DOMAIN items : hit(i)]

\* _update_mapping(doc, platform_key, logical_name, new_identifier): the
\* document after the loop over doc[platform_key], and `changed`.
update_mapping(doc, platform_key, logical_name, new_identifier, ruamel) ==
    IF doc.none THEN [tag |-> "raised", error |-> "TypeError"]
    ELSE IF ~doc[platform_key].present
    THEN [tag |-> "ok", doc |-> doc, changed |-> FALSE]
    ELSE LET items == doc[platform_key].items
             hit(i) == items[i].dict /\ items[i].name = logical_name
             differs(i) == \/ items[i].identifier = NoField
                           \/ items[i].identifier.chars # new_identifier
             new_val == IF needs_quote(new_identifier)
                        THEN quote_identifier(new_identifier, ruamel)
                        ELSE Str("plain", new_identifier)
             normalized(cur) == IF ruamel /\ cur # NoField /\ needs_quote(cur.chars)
                                THEN Str("single", cur.chars)
                                ELSE cur
         IN [tag |-> "ok",
             doc |-> [doc EXCEPT ![platform_key].items =
                        [i \in DOMAIN items |->
                           IF ~hit(i) THEN items[i]
                           ELSE IF differs(i)
                           THEN [items[i] EXCEPT !.identifier = new_val]
                           ELSE [items[i] EXCEPT !.identifier = normalized(@)]]],
             changed |-> \E i \in DOMAIN items : hit(i) /\ differs(i)]

\* ------------------------------------------------------------------------
\* mapping_updater.update_logical_name_across_modules
\* ------------------------------------------------------------------------

\* filenames = files_override or DEFAULT_FILES, less the locale files when
\* include_locale_files is false.
Filenames(include_locale_files) ==
    IF include_locale_files THEN DEFAULT_FILES
    ELSE SelectSeq(DEFAULT_FILES, LAMBDA f : "spanish" \notin Range(f))

\* The paths of the walk in its order: module directories outside, file
\* names inside.
PathSeq(filenames) ==
    LET n == Len(filenames) IN
    [k \in 1..(Len(Modules) * n) |->
        <<Modules[((k - 1) \div n) + 1], filenames[((k - 1) % n) + 1]>>]

AllPaths == Range(PathSeq(DEFAULT_FILES))

\* `not new_identifier`: None and "" are both falsy; "" is the empty string.
Falsy(identifier) == identifier = <<>>

\* The body of the two loops for one path: acc is the tests repo, the count
\* of updated files, the per-file results and the set of files written.
ProcessFile(acc, path, args, ruamel) ==
    LET f == acc.repo[path]
        platform == platform_from_filename(path[2])
        entry(changed) == [file |-> path, platform |-> platform,
                           changed |-> changed, error |-> "none"]
        failed(e) == [acc EXCEPT !.files =
                        Append(@, [file |-> path, platform |-> platform,
                                   changed |-> FALSE, error |-> e])]
    IN
    IF f = Missing THEN acc
    ELSE IF platform = "android" /\ Falsy(args.android) THEN acc
    ELSE IF platform = "ios" /\ Falsy(args.ios) THEN acc
    ELSE LET loaded == load_yaml(f, ruamel) IN
         IF loaded.tag = "raised" THEN failed(loaded.error)
         ELSE IF platform = "None"
         THEN [acc EXCEPT !.files = Append(@, entry(FALSE))]
         ELSE LET um == update_mapping(loaded, platform, args.logical_name,
                                       IF platform = "android" THEN args.android
                                       ELSE args.ios, ruamel)
              IN IF um.tag = "raised" THEN failed(um.error)
                 ELSE IF ~um.changed
                 THEN [acc EXCEPT !.files = Append(@, entry(FALSE))]
                 ELSE IF ~f.writable THEN failed("PermissionError")
                 ELSE [repo |-> [acc.repo EXCEPT ![path] = save_yaml(um.doc)],
                       updated |-> acc.updated + 1,
                       files |-> Append(acc.files, entry(TRUE)),
                       written |-> acc.written \cup {path}]

\* The mutated walk: the first file that fails ends the walk.
RECURSIVE Walk_AbortOnError(_, _, _, _)
Walk_AbortOnError(paths, acc, args, ruamel) ==
    IF paths = <<>> THEN acc
    ELSE LET next == ProcessFile(acc, Head(paths), args, ruamel) IN
         IF Len(next.files) > Len(acc.files) /\
            next.files[Len(next.files)].error # "none"
         THEN next
         ELSE Walk_AbortOnError(Tail(paths), next, args, ruamel)

\* for module_dir in sorted(...): for fname in filenames: ...
RECURSIVE Walk(_, _, _, _)
Walk(paths, acc, args, ruamel) ==
    IF paths = <<>> THEN acc
    ELSE Walk(Tail(paths), ProcessFile(acc, Head(paths), args, ruamel),
              args, ruamel)

\* update_logical_name_across_modules(tests_repo, logical_name, android, ios,
\* include_locale_files): the tests repo after the call and what it returns.
update_logical_name_across_modules(tests_repo, root_isdir, args, ruamel) ==
    IF ~root_isdir
    THEN [repo |-> tests_repo, updated |-> 0, files |-> <<>>, written |-> {},
          message |-> "Modules dir not found"]
    ELSE LET w == Walk(PathSeq(Filenames(args.include_locale_files)),
                       [repo |-> tests_repo, updated |-> 0, files |-> <<>>,
                        written |-> {}],
                       args, ruamel)
         IN [repo |-> w.repo, updated |-> w.updated, files |-> w.files,
             written |-> w.written, message |-> "none"]

\* ------------------------------------------------------------------------
\* identifier_extractor: resolution of a discovered identifier
\* ------------------------------------------------------------------------

\* An identifier is a sequence of tokens: letters, the digits "1" and "2",
\* the separators "_" and "-", the space "SP", and the words "val", "Plus"
\* (for Premium, Plus, Deluxe) and "V", each standing for its characters.
Digits == {"1", "2"}
Separators == {"_", "-"}
SuffixWords == {"Plus"}

\* s.startswith(k)
StartsWith(s, k) == Len(k) <= Len(s) /\ SubSeq(s, 1, Len(k)) = k

\* The longest tail of s made of tokens of the set only, as its length.
RECURSIVE TailRun(_, _)
TailRun(s, set) ==
    IF s = <<>> \/ s[Len(s)] \notin set THEN 0
    ELSE 1 + TailRun(SubSeq(s, 1, Len(s) - 1), set)

DropTail(s, n) == SubSeq(s, 1, Len(s) - n)

\* value.strip()
RECURSIVE strip(_)
strip(s) ==
    IF s # <<>> /\ Head(s) = "SP" THEN strip(Tail(s))
    ELSE IF s # <<>> /\ s[Len(s)] = "SP" THEN strip(DropTail(s, 1))
    ELSE s

\* re.sub(r"[_-]val\d+$", "", v)
StripValSuffix(v) ==
    LET d == TailRun(v, Digits) IN
    IF d >= 1 /\ Len(v) >= d + 2 /\ v[Len(v) - d] = "val"
       /\ v[Len(v) - d - 1] \in Separators
    THEN DropTail(v, d + 2)
    ELSE v

\* re.sub(r"\d+$", "", v)
StripDigits(v) == DropTail(v, TailRun(v, Digits))

\* re.sub(r"(Premium|Plus|Deluxe|V\d+)$", "", v)
StripSuffixWord(v) ==
    LET d == TailRun(v, Digits) IN
    IF v # <<>> /\ v[Len(v)] \in SuffixWords THEN DropTail(v, 1)
    ELSE IF d >= 1 /\ Len(v) >= d + 1 /\ v[Len(v) - d] = "V"
    THEN DropTail(v, d + 1)
    ELSE v

\* re.sub(r"[_-]+$", "", v)
StripSeparators(v) == DropTail(v, TailRun(v, Separators))

\* normalize_base(value)
normalize_base(value) ==
    StripSeparators(StripSuffixWord(StripDigits(StripValSuffix(strip(value)))))

\* An exact map is a dict: its items as a sequence of <<key, logical>> in the
\* order of the dict, no key twice.
Keys(exact_map) == {exact_map[i][1] : i \in DOMAIN exact_map}
Lookup(exact_map, key) ==
    exact_map[CHOOSE i \in DOMAIN exact_map : exact_map[i][1] = key][2]

\* A pattern is {match: regex, logical: name}. The regexes of the model:
\* "^<tokens>" (kind "prefix"), "" (kind "any": re.search finds it in every
\* value) and one that does not compile (kind "invalid": re.error).
Pattern(kind, arg, logical) == [kind |-> kind, arg |-> arg, logical |-> logical]

\* re.search(p.get("match", ""), value) finds a match; re.error counts as none.
Matches(p, value) ==
    CASE p.kind = "prefix" -> StartsWith(value, p.arg)
      [] p.kind = "any" -> TRUE
      [] OTHER -> FALSE

\* map_by_patterns(value, patterns): the logical of the first pattern that
\* matches, or None.
RECURSIVE map_by_patterns(_, _)
map_by_patterns(value, patterns) ==
    IF patterns = <<>> THEN None
    ELSE IF Matches(Head(patterns), value) THEN Head(patterns).logical
    ELSE map_by_patterns(value, Tail(patterns))

\* The loop of map_by_fuzzy over exact_map.items().
RECURSIVE FuzzyScan(_, _, _)
FuzzyScan(value, base, items) ==
    IF items = <<>> THEN None
    ELSE IF StartsWith(value, Head(items)[1]) \/ StartsWith(base, Head(items)[1])
    THEN Head(items)[2]
    ELSE FuzzyScan(value, base, Tail(items))

\* map_by_fuzzy(value, exact_map)
map_by_fuzzy(value, exact_map) ==
    LET base == normalize_base(value) IN
    IF base \in Keys(exact_map) THEN Lookup(exact_map, base)
    ELSE FuzzyScan(value, base, exact_map)

\* `if m:` of a str or None.
Truthy(m) == m # None /\ m # PyStr("")

\* The mutated chooser: the patterns are asked before the exact map.
choose_logical_PatternsFirst(value, exact_map, patterns) ==
    LET m == map_by_patterns(value, patterns) IN
    IF Truthy(m) THEN m
    ELSE IF value \in Keys(exact_map) THEN Lookup(exact_map, value)
    ELSE map_by_fuzzy(value, exact_map)

\* choose_logical_for_rn(testid, exact_map, patterns)
choose_logical_for_rn(testid, exact_map, patterns) ==
    IF testid \in Keys(exact_map) THEN Lookup(exact_map, testid)
    ELSE LET m == map_by_patterns(testid, patterns) IN
         IF Truthy(m) THEN m
         ELSE map_by_fuzzy(testid, exact_map)

\* choose_logical_generic(value, exact_map, patterns)
choose_logical_generic(value, exact_map, patterns) ==
    IF value \in Keys(exact_map) THEN Lookup(exact_map, value)
    ELSE LET m == map_by_patterns(value, patterns) IN
         IF Truthy(m) THEN m
         ELSE map_by_fuzzy(value, exact_map)

\* ------------------------------------------------------------------------
\* State
\* ------------------------------------------------------------------------

VARIABLES
    pc,             \* the position of Orchestrator.run_once
    unit,           \* the test unit named by test_module_relpath
    old_key,        \* the old_key argument: the locator that broke
    platform,       \* the platform argument
    web_generator,  \* ci_orchestrator.generate_locator_patch: "available",
                    \* or "missing" when its guarded import failed
    testsDir,       \* what tests_dir is on disk
    files,          \* the target test artifacts below tests_dir
    files0,         \* files when the cycle started
    snapshotFile,   \* the file at snapshot_path, or Unreadable
    store,          \* the ArtifactStore writes of the cycle, in order
    patch_diff,     \* logs_dir/patch.diff
    testRuns,       \* the calls of run_test_and_capture
    snapReads,      \* the reads of snapshot_path
    strategyCalls,  \* the proposal strategies invoked, in order
    applyCalls,     \* the calls of _apply_and_run_compat
    passed, err, snap, patch, test_file, applied, result,  \* locals of run_once
    ret,            \* the value run_once returned
    exc,            \* the exception that left run_once
    repo,           \* the mapping documents of the tests repo, by path
    root_isdir,     \* whether tests_repo/modules_root is a directory
    ruamel,         \* mapping_updater._RUAMEL: ruamel.yaml was imported
    lastArgs,       \* the arguments of the last call
    repoBefore,     \* the tests repo before the last call
    mret,           \* what the last call returned
    written,        \* the files the last call wrote
    repeat,         \* the last call repeated the arguments of the one before
    procs,          \* the invocations that run concurrently on one document
    call,           \* the last call of a library function: its name, its
                    \* arguments and what it returned
    cli_pc,         \* the position of the cli command that runs
    llm_cfg,        \* cfg.llm: the provider name and whether a key is set
    app_cfg,        \* update_mappings_from_app: the app configuration
    app_ids,        \* its discovered identifiers (ids)
    rule_mapped,    \* the identifiers its rule-based mapping resolved
    updates_rb,     \* the updates of the rule-based mapping
    llm_calls,      \* the calls of generate_patch: the provider class and
                    \* the request
    resp,           \* what the last generate_patch returned
    llm_suggestions, \* the suggestions taken from resp
    updates,        \* the merged update list
    run_prompt,     \* run: the prompt built for the LLM
    run_workspace,  \* run: the workspace argument
    validation,     \* run: the result of validate
    artifacts,      \* the names put into the ArtifactStore, in order
    ledger,         \* the records appended to the patch ledger
    printed,        \* the status payloads printed, in order
    cli_exc,        \* the exception that left the command, or None
    github_token,   \* whether the github_token argument is a non-empty string
    apply_calls,    \* the updates applied across the tests repo, in order
    total_changed,  \* the sum of the `updated` counts of the applied updates
    vcs,            \* the source-control operations attempted, in order
    pr              \* what GitHubClient.open_pr returned, or None

orchVars == <<pc, unit, old_key, platform, web_generator, testsDir, files, files0,
              snapshotFile, store, patch_diff, testRuns, snapReads,
              strategyCalls, applyCalls, passed, err, snap, patch, test_file,
              applied, result, ret, exc>>

mapVars == <<repo, root_isdir, ruamel, lastArgs, repoBefore, mret,
             written, repeat, procs>>

libVars == <<call>>

prVars == <<github_token, apply_calls, total_changed, vcs, pr>>

cliVars == <<cli_pc, llm_cfg, app_cfg, app_ids, rule_mapped, updates_rb,
             llm_calls, resp, llm_suggestions, updates, run_prompt,
             run_workspace, validation, artifacts, ledger, printed, cli_exc,
             prVars>>

vars == <<orchVars, mapVars, libVars, cliVars>>

\* The variables an orchestrator cycle, a mapping update, a library call and
\* a cli command leave alone.
notOrchVars == <<mapVars, libVars, cliVars>>
notMapVars == <<orchVars, libVars, cliVars>>
notLibVars == <<orchVars, mapVars, cliVars>>
notCliVars == <<orchVars, mapVars, libVars>>

\* ---- the inputs of a cycle ----

\* Labels, accessibility ids and html ids of the snapshots.
CheckOut == <<"C", "h", "e", "c", "k", " ", "O", "u", "t">>
CheckoutNow == <<"C", "h", "e", "c", "k", "o", "u", "t", " ", "N", "o", "w">>
Pay == <<"P", "a", "y">>
CheckoutAccId == <<"c", "h", "e", "c", "k", "o", "u", "t", "_", "b", "t", "n">>
BtnOld == <<"b", "t", "n", "O", "l", "d">>
BtnProceedNew == <<"b", "t", "n", "P", "r", "o", "c", "e", "e", "d", "N", "e", "w">>
BtnSubmit == <<"b", "t", "n", "S", "u", "b", "m", "i", "t">>
MainId == <<"m", "a", "i", "n">>

Button(label, name, children) ==
    Node("XCUIElementTypeButton", label, name, <<>>, children)
Other(children) == Node("XCUIElementTypeOther", <<>>, <<>>, <<>>, children)

\* The old locators: an iOS label predicate and a web id.
OldKeys == {LabelPredicate(CheckOut), BtnOld}

\* The id lists of the HTML snapshots: none; one id without the prefix; a
\* prefixed id after an unprefixed one; the old id and a preferred one; two
\* preferred ids in both orders; prefixed ids none of which is preferred.
HtmlIdLists ==
    {<<>>, <<MainId>>, <<MainId, BtnOld>>, <<BtnOld, BtnProceedNew>>,
     <<BtnSubmit, BtnProceedNew>>, <<BtnProceedNew, BtnSubmit>>}

\* The trees of the XML snapshots: no button; one button with a label only;
\* the old button and, nested below a container, a renamed one with a name.
XmlRoots ==
    {Other(<<>>),
     Other(<<Button(Pay, <<>>, <<>>)>>),
     Other(<<Button(CheckOut, <<>>, <<>>),
             Other(<<Button(CheckoutNow, CheckoutAccId, <<>>)>>)>>)}

\* The snapshot file cannot be opened.
Unreadable == [tag |-> "unreadable"]

\* The snapshot texts: HTML (no well-formed XML) and XML (no id attribute).
Snapshots ==
    {Snapshot(FALSE, None, ids) : ids \in HtmlIdLists}
    \cup {Snapshot(TRUE, root, <<>>) : root \in XmlRoots}

Platforms == {"web", "ios", "android"}

\* ---- the inputs of the mapping update ----

Old == <<"o">>
NewAndroid == <<"a", ":", "b">>
NewIos == <<"x", "TAB">>

\* The documents a path may hold: unparseable; empty; the record of the
\* logical name with another identifier under both platform keys; with the
\* new identifiers already (quoted, the tab escaped as the emitter writes
\* it); a document with a record of another name, an entry that is no
\* mapping and a hand-written scalar with a raw tab; one that cannot be
\* written.
DocPool ==
    {Malformed, EmptyDoc,
     Yaml(List(<<Item("login", Scalar("plain", Old))>>),
          List(<<Item("login", Scalar("plain", Old))>>), TRUE),
     Yaml(List(<<Item("login", Scalar("single", NewAndroid))>>),
          List(<<Item("login", Scalar("double", Escape(NewIos)))>>), TRUE),
     Yaml(List(<<Item("other", Scalar("plain", Old)), Item("login", NoField)>>),
          List(<<NonDictItem, Item("login", Scalar("single", NewIos))>>), TRUE),
     Yaml(List(<<Item("login", Scalar("plain", Old))>>),
          List(<<Item("login", Scalar("plain", Old))>>), FALSE)}

\* The paths at which the tests repo may hold a mapping document: in both
\* modules, for both platforms, default and locale files.
DocPaths ==
    {<<"m1", <<"mappings", "android">> >>,
     <<"m1", <<"mappings", "ios", "spanish">> >>,
     <<"m2", <<"mappings", "android", "spanish">> >>,
     <<"m2", <<"mappings", "ios">> >>}

\* At most this many mapping documents exist in the tests repo.
MaxDocs == 2

\* The arguments of a call.
ArgsPool ==
    [logical_name : {"login"},
     android : {<<>>, NewAndroid},
     ios : {<<>>, NewIos},
     include_locale_files : BOOLEAN]

NoArgs == [logical_name |-> "", android |-> <<>>, ios |-> <<>>,
           include_locale_files |-> TRUE]
NoReturn == [repo |-> <<>>, updated |-> 0, files |-> <<>>, written |-> {},
             message |-> "no call"]

\* No invocation runs concurrently with another.
NoProcs == <<>>

\* A call of update_logical_name_across_modules has returned.
Called == lastArgs # NoArgs

\* No mapping update is running.
MapIdle ==
    /\ repo = [p \in AllPaths |-> Missing]
    /\ root_isdir = FALSE
    /\ ruamel = TRUE
    /\ lastArgs = NoArgs
    /\ repoBefore = repo
    /\ mret = NoReturn
    /\ written = {}
    /\ repeat = FALSE
    /\ procs = NoProcs

OrchInit ==
    /\ pc = "detect"
    /\ unit \in TestUnits
    /\ old_key \in OldKeys
    /\ platform \in Platforms
    /\ web_generator \in {"available", "missing"}
    /\ testsDir \in TestsDirKinds
    /\ files \in IF isdir(testsDir) THEN [TargetNames -> FileStates]
                 ELSE {[n \in TargetNames |-> Absent]}
    /\ files0 = files
    /\ snapshotFile \in Snapshots \cup {Unreadable}
    /\ store = <<>>
    /\ patch_diff = None
    /\ testRuns = 0
    /\ snapReads = 0
    /\ strategyCalls = <<>>
    /\ applyCalls = 0
    /\ passed = FALSE /\ err = None /\ snap = None /\ patch = None /\ test_file = "unset"
    /\ applied = None /\ result = None
    /\ ret = None
    /\ exc = None

\* No library function has been called.
NoCall == [fn |-> "none"]
LibIdle == call = NoCall

\* No update was applied and no source-control operation attempted.
PrIdle ==
    /\ github_token = FALSE
    /\ apply_calls = <<>>
    /\ total_changed = 0
    /\ vcs = <<>>
    /\ pr = None

\* No cli command is running.
CliIdle ==
    /\ cli_pc = "idle"
    /\ llm_cfg = [provider |-> <<>>, openai_api_key |-> FALSE]
    /\ app_cfg = [platform |-> "react_native", exact_map |-> <<>>,
                  patterns |-> <<>>]
    /\ app_ids = <<>>
    /\ rule_mapped = {}
    /\ updates_rb = <<>>
    /\ llm_calls = <<>>
    /\ resp = None
    /\ llm_suggestions = <<>>
    /\ updates = <<>>
    /\ run_prompt = None
    /\ run_workspace = ""
    /\ validation = None
    /\ artifacts = <<>>
    /\ ledger = <<>>
    /\ printed = <<>>
    /\ cli_exc = None
    /\ PrIdle

Init == OrchInit /\ MapIdle /\ LibIdle /\ CliIdle

\* An exception raised at step `at` leaves run_once.
Raise(cls, at) ==
    /\ exc' = [tag |-> "exc", cls |-> cls, at |-> at]
    /\ pc' = "raised"

\* ArtifactStore.save_text / save_json(name, value): the write, or OSError.
Save(name, value, next) ==
    \E io_ok \in BOOLEAN :
        IF io_ok
        THEN /\ store' = Append(store, [name |-> name, value |-> value])
             /\ pc' = next
             /\ exc' = exc
        ELSE /\ Raise("OSError", name)
             /\ store' = store

\* err or "unknown error"
OrUnknown(e) == IF e = None THEN ErrorString("", "unknown error") ELSE e

\* ------------------------------------------------------------------------
\* Orchestrator.run_once, one action per step
\* ------------------------------------------------------------------------

\* The mutated first step: a passing test goes on to the capture steps.
Detect_NoShortCircuit ==
    /\ pc = "detect"
    /\ testRuns' = testRuns + 1
    /\ passed' = run_test_and_capture(unit).passed
    /\ err' = run_test_and_capture(unit).error
    /\ pc' = "save_failure_error"
    /\ UNCHANGED <<unit, old_key, platform, web_generator, testsDir, files, files0,
                   snapshotFile, store, patch_diff, snapReads, strategyCalls,
                   applyCalls, snap, patch, test_file, applied, result, ret, exc>>
    /\ UNCHANGED notOrchVars

\* passed, err = run_test_and_capture(...); if passed: return already_passed
Detect ==
    /\ pc = "detect"
    /\ testRuns' = testRuns + 1
    /\ LET r == run_test_and_capture(unit) IN
         /\ passed' = r.passed
         /\ err' = r.error
         /\ IF r.passed
            THEN /\ ret' = [status |-> "already_passed"]
                 /\ pc' = "done"
            ELSE /\ pc' = "save_failure_error"
                 /\ ret' = ret
    /\ UNCHANGED <<unit, old_key, platform, web_generator, testsDir, files, files0,
                   snapshotFile, store, patch_diff, snapReads, strategyCalls,
                   applyCalls, snap, patch, test_file, applied, result, exc>>
    /\ UNCHANGED notOrchVars

\* self.store.save_text("failure_error", err or "unknown error")
SaveFailureError ==
    /\ pc = "save_failure_error"
    /\ Save("failure_error", OrUnknown(err), "read_snapshot")
    /\ UNCHANGED <<unit, old_key, platform, web_generator, testsDir, files, files0,
                   snapshotFile, patch_diff, testRuns, snapReads, strategyCalls,
                   applyCalls, passed, err, snap, patch, test_file, applied, result, ret>>
    /\ UNCHANGED notOrchVars

\* with open(snapshot_path, "r", ...) as f: snap = f.read()
ReadSnapshot ==
    /\ pc = "read_snapshot"
    /\ IF snapshotFile = Unreadable
       THEN /\ Raise("FileNotFoundError", "read_snapshot")
            /\ UNCHANGED <<snap, snapReads>>
       ELSE /\ snap' = snapshotFile
            /\ snapReads' = snapReads + 1
            /\ pc' = "save_snapshot"
            /\ exc' = exc
    /\ UNCHANGED <<unit, old_key, platform, web_generator, testsDir, files, files0,
                   snapshotFile, store, patch_diff, testRuns, strategyCalls,
                   applyCalls, passed, err, patch, test_file, applied, result, ret>>
    /\ UNCHANGED notOrchVars

\* self.store.save_text("snapshot", snap)
SaveSnapshot ==
    /\ pc = "save_snapshot"
    /\ Save("snapshot", snap, "propose")
    /\ UNCHANGED <<unit, old_key, platform, web_generator, testsDir, files, files0,
                   snapshotFile, patch_diff, testRuns, snapReads, strategyCalls,
                   applyCalls, passed, err, snap, patch, test_file, applied, result, ret>>
    /\ UNCHANGED notOrchVars

\* The mutated proposal step: a null candidate goes on to the apply step.
Propose_NullGoesOn ==
    /\ pc = "propose"
    /\ IF platform = "ios"
       THEN /\ patch' = generate_ios_locator_patch(old_key, snap, TRUE)
            /\ strategyCalls' = Append(strategyCalls, "ios")
            /\ test_file' = "ios_cart_test.py"
       ELSE /\ patch' = generate_locator_patch(old_key, snap)
            /\ strategyCalls' = Append(strategyCalls, "web")
            /\ test_file' = "failing_test.py"
    /\ pc' = "apply"
    /\ UNCHANGED <<unit, old_key, platform, web_generator, testsDir, files, files0,
                   snapshotFile, store, patch_diff, testRuns, snapReads,
                   applyCalls, passed, err, snap, applied, result, ret, exc>>
    /\ UNCHANGED notOrchVars

\* Propose patch (web vs iOS): the strategy of the platform, and the early
\* return when it is missing or returns no patch.
Propose ==
    /\ pc = "propose"
    /\ IF platform = "ios"
       THEN LET p == generate_ios_locator_patch(old_key, snap, TRUE) IN
            /\ strategyCalls' = Append(strategyCalls, "ios")
            /\ patch' = p
            /\ IF p = None
               THEN /\ ret' = [status |-> "no_candidate_found", platform |-> "ios"]
                    /\ pc' = "done"
                    /\ test_file' = test_file
               ELSE /\ pc' = "save_suggested_patch"
                    /\ test_file' = "ios_cart_test.py"
                    /\ ret' = ret
       ELSE IF web_generator = "missing"
       THEN /\ ret' = [status |-> "no_candidate_found",
                       reason |-> "llm_patch_generator missing",
                       platform |-> "web"]
            /\ pc' = "done"
            /\ UNCHANGED <<strategyCalls, patch, test_file>>
       ELSE LET p == generate_locator_patch(old_key, snap) IN
            /\ strategyCalls' = Append(strategyCalls, "web")
            /\ patch' = p
            /\ IF p = None
               THEN /\ ret' = [status |-> "no_candidate_found", platform |-> "web"]
                    /\ pc' = "done"
                    /\ test_file' = test_file
               ELSE /\ pc' = "save_suggested_patch"
                    /\ test_file' = "failing_test.py"
                    /\ ret' = ret
    /\ UNCHANGED <<unit, old_key, platform, web_generator, testsDir, files, files0,
                   snapshotFile, store, patch_diff, testRuns, snapReads,
                   applyCalls, passed, err, snap, applied, result, exc>>
    /\ UNCHANGED notOrchVars

\* self.store.save_json("suggested_patch", ...)
SaveSuggestedPatch ==
    /\ pc = "save_suggested_patch"
    /\ Save("suggested_patch", patch, "apply")
    /\ UNCHANGED <<unit, old_key, platform, web_generator, testsDir, files, files0,
                   snapshotFile, patch_diff, testRuns, snapReads, strategyCalls,
                   applyCalls, passed, err, snap, patch, test_file, applied, result, ret>>
    /\ UNCHANGED notOrchVars

\* The text with the value of its LOCATOR statements replaced.
RewriteLocator(text, value) ==
    [i \in DOMAIN text |->
        IF text[i].kind = "LOCATOR" THEN LocatorLine(value) ELSE text[i]]

\* The mutated apply step: the patched text is reported with an empty diff.
ApplyAndRunCompat_PatchedNoDiff ==
    /\ pc = "apply"
    /\ applyCalls' = applyCalls + 1
    /\ LET res == validate(testsDir, TRUE)
           original_text == safe_read(files[test_file])
       IN /\ applied' = [ok |-> res.ok, diff |-> EmptyDiff,
                         patched_text |->
                             RewriteLocator(original_text,
                                 IF platform = "ios" THEN patch.value
                                 ELSE patch.new_id),
                         original_text |-> original_text]
          /\ pc' = "save_validation_result"
          /\ exc' = exc
    /\ UNCHANGED <<unit, old_key, platform, web_generator, testsDir, files, files0,
                   snapshotFile, store, patch_diff, testRuns, snapReads,
                   strategyCalls, passed, err, snap, patch, test_file, result, ret>>
    /\ UNCHANGED notOrchVars

\* _apply_and_run_compat(test_file, test_module_relpath, payload): the
\* legacy function is tried with three arguments; on TypeError the validator
\* decides, with no patch applied and the file read as original_text.
ApplyAndRunCompat ==
    /\ pc = "apply"
    /\ applyCalls' = applyCalls + 1
    /\ LET legacy == apply_and_run(<<test_file, "test_module_relpath", "payload">>) IN
         IF legacy.tag = "returned"
         THEN \* run_once unpacks the returned dict into four names
              /\ Raise("ValueError", "apply")
              /\ applied' = applied
         ELSE LET res == validate(testsDir, TRUE)
                  original_text == safe_read(files[test_file])
              IN /\ applied' = [ok |-> res.ok, diff |-> EmptyDiff,
                                patched_text |-> original_text,
                                original_text |-> original_text]
                 /\ pc' = "save_validation_result"
                 /\ exc' = exc
    /\ UNCHANGED <<unit, old_key, platform, web_generator, testsDir, files, files0,
                   snapshotFile, store, patch_diff, testRuns, snapReads,
                   strategyCalls, passed, err, snap, patch, test_file, result, ret>>
    /\ UNCHANGED notOrchVars

\* The mutated persist step: the record is persisted with the platform of
\* the default strategy.
SaveValidationResult_WebPlatform ==
    /\ pc = "save_validation_result"
    /\ LET r == [status |-> IF applied.ok THEN "healed" ELSE "failed_validation",
                 platform |-> platform, suggestion |-> patch,
                 diff |-> applied.diff]
       IN /\ result' = r
          /\ Save("validation_result", [r EXCEPT !.platform = "web"],
                  IF applied.ok THEN "write_patch_diff" ELSE "rollback")
    /\ UNCHANGED <<unit, old_key, platform, web_generator, testsDir, files, files0,
                   snapshotFile, patch_diff, testRuns, snapReads, strategyCalls,
                   applyCalls, passed, err, snap, patch, test_file, applied, ret>>
    /\ UNCHANGED notOrchVars

\* result = {...}; self.store.save_json("validation_result", result)
SaveValidationResult ==
    /\ pc = "save_validation_result"
    /\ LET r == [status |-> IF applied.ok THEN "healed" ELSE "failed_validation",
                 platform |-> platform, suggestion |-> patch,
                 diff |-> applied.diff]
       IN /\ result' = r
          /\ Save("validation_result", r,
                  IF applied.ok THEN "write_patch_diff" ELSE "rollback")
    /\ UNCHANGED <<unit, old_key, platform, web_generator, testsDir, files, files0,
                   snapshotFile, patch_diff, testRuns, snapReads, strategyCalls,
                   applyCalls, passed, err, snap, patch, test_file, applied, ret>>
    /\ UNCHANGED notOrchVars

\* if not ok: open(test_file, "w").write(original_text); rolled_back = True
Rollback ==
    /\ pc = "rollback"
    /\ IF CanOpenForWrite(testsDir)
       THEN /\ files' = [files EXCEPT
                           ![test_file] = Written(@, applied.original_text)]
            /\ ret' = [status |-> result.status, platform |-> result.platform,
                       suggestion |-> result.suggestion, diff |-> result.diff,
                       rolled_back |-> TRUE]
            /\ pc' = "done"
            /\ exc' = exc
       ELSE /\ Raise("FileNotFoundError", "rollback")
            /\ UNCHANGED <<files, ret>>
    /\ UNCHANGED <<unit, old_key, platform, web_generator, testsDir, files0,
                   snapshotFile, store, patch_diff, testRuns, snapReads,
                   strategyCalls, applyCalls, passed, err, snap, patch, test_file,
                   applied, result>>
    /\ UNCHANGED notOrchVars

\* else: open(logs_dir/patch.diff, "w").write(diff)
WritePatchDiff ==
    /\ pc = "write_patch_diff"
    /\ \E io_ok \in BOOLEAN :
         IF io_ok
         THEN /\ patch_diff' = [tag |-> "str", text |-> applied.diff]
              /\ ret' = result
              /\ pc' = "done"
              /\ exc' = exc
         ELSE /\ Raise("OSError", "patch_diff")
              /\ UNCHANGED <<patch_diff, ret>>
    /\ UNCHANGED <<unit, old_key, platform, web_generator, testsDir, files, files0,
                   snapshotFile, store, testRuns, snapReads, strategyCalls,
                   applyCalls, passed, err, snap, patch, test_file, applied, result>>
    /\ UNCHANGED notOrchVars

Next ==
    \/ Detect
    \/ SaveFailureError
    \/ ReadSnapshot
    \/ SaveSnapshot
    \/ Propose
    \/ SaveSuggestedPatch
    \/ ApplyAndRunCompat
    \/ SaveValidationResult
    \/ Rollback
    \/ WritePatchDiff

Spec == Init /\ [][Next]_vars

\* ------------------------------------------------------------------------
\* Properties of Orchestrator.run_once
\* ------------------------------------------------------------------------

\* The cycle ended: run_once returned or an exception left it.
CycleEnded == pc \in {"done", "raised"}

\* The apply-and-verify step ran and reported not ok.
ApplyNotOk == applied # None /\ ~applied.ok

\* The store holds a record of the given name.
Stored(name) == \E i \in DOMAIN store : store[i].name = name

\* C1 (rollback invariant): in every cycle whose apply-and-verify step
\* reported not ok, the target test artifacts after the cycle ended are what
\* they were when the cycle started, an absent or unreadable artifact included.
C1_RollbackInvariant ==
    (CycleEnded /\ ApplyNotOk) => files = files0

\* C1 witness: a cycle ended after apply-and-verify reported not ok and the
\* rollback step was taken.
C1_Witness ==
    /\ CycleEnded /\ ApplyNotOk
    /\ pc = "raised" /\ exc.at = "rollback"

\* C2 (as claimed): run_once returns 'healed' only after the test was executed
\* a second time, after the apply step.
C2_HealedOnlyAfterRerun ==
    (pc = "done" /\ ret.status = "healed") => testRuns >= 2

\* C3 (already-passed short-circuit): once the initial test run has passed,
\* the cycle has ended with status 'already_passed' and nothing else has
\* happened: no snapshot read, no store write, no strategy call, no apply, no
\* write to a target artifact or to patch.diff.
C3_AlreadyPassedShortCircuit ==
    (testRuns >= 1 /\ passed) =>
        /\ pc = "done"
        /\ ret = [status |-> "already_passed"]
        /\ snapReads = 0
        /\ store = <<>>
        /\ strategyCalls = <<>>
        /\ applyCalls = 0
        /\ files = files0
        /\ patch_diff = None

\* C3 witness: a cycle whose initial run passed has ended.
C3_Witness ==
    testRuns = 1 /\ passed /\ pc = "done" /\ ret.status = "already_passed"

\* What the strategy selected by the platform yields on the snapshot read:
\* None when it is unavailable or returns null.
SelectedStrategyResult ==
    IF platform = "ios" THEN generate_ios_locator_patch(old_key, snap, TRUE)
    ELSE IF web_generator = "missing" THEN None
    ELSE generate_locator_patch(old_key, snap)

\* The proposal step of the cycle is over.
ProposeOver ==
    /\ snap # None
    /\ pc \notin {"save_snapshot", "propose"}
    /\ ~(pc = "raised" /\ exc.at = "snapshot")

\* C4 (no-candidate short-circuit): when the selected strategy is unavailable
\* or returns null, the cycle has ended with status 'no_candidate_found', the
\* target artifacts are unchanged, apply-and-verify was not invoked and the
\* test was not executed again.
C4_NoCandidateShortCircuit ==
    (ProposeOver /\ SelectedStrategyResult = None) =>
        /\ pc = "done"
        /\ ret.status = "no_candidate_found"
        /\ files = files0
        /\ applyCalls = 0
        /\ testRuns = 1
        /\ patch_diff = None

\* C4 witness: the cycle ended because the invoked strategy returned null.
C4_Witness ==
    /\ ProposeOver /\ SelectedStrategyResult = None
    /\ strategyCalls # <<>>
    /\ pc = "done" /\ ret.status = "no_candidate_found"

\* C5 (as claimed): on the branch taken when apply-and-verify reported not ok
\* (the result record is persisted and the rollback is due), the cycle ends
\* by a normal return with status 'failed_validation' and rolled_back true.
C5_FailedValidationReturnsNormally ==
    (CycleEnded /\ ApplyNotOk /\ Stored("validation_result")) =>
        /\ pc = "done"
        /\ ret.status = "failed_validation"
        /\ "rolled_back" \in DOMAIN ret
        /\ ret.rolled_back

\* C6 (as claimed): when run_once has returned, a result record carrying the
\* returned status was written through the store before.
C6_ResultRecordBeforeReturn ==
    pc = "done" =>
        \E i \in DOMAIN store :
            /\ store[i].name = "validation_result"
            /\ store[i].value.status = ret.status

\* C7 (as claimed): no error while capturing an artifact (failure_error,
\* the snapshot read, snapshot, suggested_patch) ends the cycle with an
\* exception.
C7_CaptureErrorsNonFatal ==
    ~(pc = "raised" /\
      exc.at \in {"failure_error", "read_snapshot", "snapshot", "suggested_patch"})

OrchIdle ==
    /\ pc = "idle"
    /\ unit = [stage |-> "returns", value |-> "True"]
    /\ old_key = <<>>
    /\ platform = "web"
    /\ web_generator = "missing"
    /\ testsDir = "missing"
    /\ files = [n \in TargetNames |-> Absent]
    /\ files0 = files
    /\ snapshotFile = Unreadable
    /\ store = <<>>
    /\ patch_diff = None
    /\ testRuns = 0
    /\ snapReads = 0
    /\ strategyCalls = <<>>
    /\ applyCalls = 0
    /\ passed = FALSE /\ err = None /\ snap = None /\ patch = None
    /\ test_file = "unset" /\ applied = None /\ result = None
    /\ ret = None
    /\ exc = None

\* The tests repo: modules_root may be missing; below it at most MaxDocs
\* mapping documents exist, each one of DocPool.
MapInit ==
    /\ root_isdir \in BOOLEAN
    /\ ruamel \in BOOLEAN
    /\ \E S \in {T \in SUBSET DocPaths : Cardinality(T) <= MaxDocs} :
       \E d \in [S -> DocPool] :
          repo = [p \in AllPaths |-> IF p \in S THEN d[p] ELSE Missing]
    /\ (~root_isdir => repo = [p \in AllPaths |-> Missing])
    /\ lastArgs = NoArgs
    /\ repoBefore = repo
    /\ mret = NoReturn
    /\ written = {}
    /\ repeat = FALSE
    /\ procs = NoProcs

InitMap == OrchIdle /\ MapInit /\ LibIdle /\ CliIdle

\* One call of update_logical_name_across_modules, from the loading of the
\* first document to the return.
UpdateCall ==
    /\ pc = "idle"
    /\ \E args \in ArgsPool :
         LET r == update_logical_name_across_modules(repo, root_isdir, args, ruamel)
         IN /\ repo' = r.repo
            /\ repoBefore' = repo
            /\ mret' = [r EXCEPT !.repo = <<>>]
            /\ written' = r.written
            /\ lastArgs' = args
            /\ repeat' = (args = lastArgs)
    /\ UNCHANGED <<root_isdir, ruamel, procs>>
    /\ UNCHANGED notMapVars

NextMap == UpdateCall

SpecMap == InitMap /\ [][NextMap]_vars

\* ------------------------------------------------------------------------
\* Properties of the mapping update
\* ------------------------------------------------------------------------

\* C9 (idempotent mapping update): a call that repeats the arguments of the
\* call right before it returns updated = 0, writes no file and leaves every
\* document as it was.
C9_IdempotentUpdate ==
    repeat => (mret.updated = 0 /\ written = {} /\ repo = repoBefore)

\* C9 witness: the repeated call loaded a document that an earlier call had
\* rewritten with the new identifier.
C9_Witness ==
    /\ repeat
    /\ mret.updated = 0
    /\ \E i \in DOMAIN mret.files :
          /\ repoBefore[mret.files[i].file] \notin DocPool
          /\ ~mret.files[i].changed

\* The last call tried to load the document at the path.
LoadAttempted(path) ==
    /\ root_isdir
    /\ path \in Range(PathSeq(Filenames(lastArgs.include_locale_files)))
    /\ repoBefore[path] # Missing
    /\ platform_from_filename(path[2]) = "android" => ~Falsy(lastArgs.android)
    /\ platform_from_filename(path[2]) = "ios" => ~Falsy(lastArgs.ios)

\* What the last call would have done without the document at the path.
WithoutDoc(path) ==
    update_logical_name_across_modules(
        [repoBefore EXCEPT ![path] = Missing], root_isdir, lastArgs, ruamel)

\* C10 (partial-failure isolation): a document that fails to parse when the
\* call loads it is not written and is reported with changed = false and an
\* error, and every other document, its per-file result and the count are
\* what they would have been without the failing document.
C10_PartialFailureIsolation ==
    Called =>
        \A f \in AllPaths :
            (LoadAttempted(f) /\ repoBefore[f] = Malformed) =>
                /\ repo[f] = repoBefore[f]
                /\ f \notin written
                /\ \E i \in DOMAIN mret.files :
                      /\ mret.files[i].file = f
                      /\ ~mret.files[i].changed
                      /\ mret.files[i].error # "none"
                /\ LET w == WithoutDoc(f) IN
                      /\ \A g \in AllPaths \ {f} : repo[g] = w.repo[g]
                      /\ SelectSeq(mret.files, LAMBDA e : e.file # f) = w.files
                      /\ mret.updated = w.updated

\* C10 witness: in one walk a document failed to parse and a document
\* visited after it was updated.
C10_Witness ==
    /\ Called
    /\ \E i, j \in DOMAIN mret.files :
          /\ i < j
          /\ repoBefore[mret.files[i].file] = Malformed
          /\ mret.files[i].error # "none"
          /\ mret.files[j].changed

\* The entries of a platform list of a document as _load_yaml reads them
\* (a document that does not load has none to compare).
LoadedList(f, key) ==
    IF f.tag = "yaml" THEN load_yaml(f, ruamel)[key] ELSE NoKey

\* The paths whose file name holds the word of the platform.
NamedFor(plat) == {p \in AllPaths : plat \in Range(p[2])}

SeqsUpTo(S, n) == UNION {[1..k -> S] : k \in 0..n}

\* The identifiers, exact maps and patterns of a resolution call: an
\* identifier that is a key and matches a pattern, one that is no key, matches
\* a pattern and normalizes to a key, one that only normalizes to a key, one
\* that nothing resolves.
Idents ==
    {<<"a">>, <<"a", "1">>, <<"b", "_", "val", "2">>, <<"c", ":", "d">>}

ExactMaps ==
    {<<>>,
     << <<(<<"a">>), PyStr("LE")>> >>,
     << <<(<<"b">>), PyStr("LB")>>, <<(<<"a">>), PyStr("LE")>> >>,
     << <<(<<"a", "1">>), PyStr("LA1")>>, <<(<<"a">>), PyStr("LE")>> >>}

PatternPool ==
    {Pattern("prefix", <<"a">>, PyStr("LP1")), Pattern("any", <<>>, PyStr("LP2")),
     Pattern("invalid", <<>>, PyStr("LX")), Pattern("prefix", <<"b">>, PyStr("LP3"))}

\* A pattern list holds at most this many patterns.
MaxPatterns == 2

PatternLists == SeqsUpTo(PatternPool, MaxPatterns)

\* choose_logical_for_rn(testid, exact_map, patterns), called on its own.
Call_choose_logical_for_rn ==
    /\ call = NoCall
    /\ \E v \in Idents, m \in ExactMaps, ps \in PatternLists :
         call' = [fn |-> "choose_logical_for_rn", value |-> v, exact_map |-> m,
                  patterns |-> ps, result |-> choose_logical_for_rn(v, m, ps)]
    /\ UNCHANGED notLibVars

\* choose_logical_generic(value, exact_map, patterns), called on its own.
Call_choose_logical_generic ==
    /\ call = NoCall
    /\ \E v \in Idents, m \in ExactMaps, ps \in PatternLists :
         call' = [fn |-> "choose_logical_generic", value |-> v, exact_map |-> m,
                  patterns |-> ps, result |-> choose_logical_generic(v, m, ps)]
    /\ UNCHANGED notLibVars

\* The workspace argument of validate: the empty string, or a path by what is
\* on disk there.
Workspaces == {""} \cup TestsDirKinds

\* PatchValidator({}).validate(workspace, patch), called on its own with a
\* patch that is a dict or something else.
Call_validate ==
    /\ call = NoCall
    /\ \E w \in Workspaces, d \in BOOLEAN :
         call' = [fn |-> "validate", workspace |-> w, patchIsDict |-> d,
                  result |-> validate(w, d)]
    /\ UNCHANGED notLibVars

\* The accessibility trees with exactly two buttons, labeled "Check Out" and
\* "Checkout Now", each with or without a name: as siblings in both orders,
\* one of them below a container, each below a container, one below the
\* other.
OldBtnId == <<"o", "l", "d", "_", "b", "t", "n">>

TwoButtonTrees ==
    UNION {
        LET A(ch) == Button(CheckOut, an, ch)
            B(ch) == Button(CheckoutNow, bn, ch)
        IN {Other(<<A(<<>>), B(<<>>)>>),
            Other(<<B(<<>>), A(<<>>)>>),
            Other(<<A(<<>>), Other(<<B(<<>>)>>)>>),
            Other(<<Other(<<B(<<>>)>>), A(<<>>)>>),
            Other(<<Other(<<A(<<>>)>>), Other(<<B(<<>>)>>)>>),
            A(<<B(<<>>)>>),
            B(<<A(<<>>)>>)}
        : an \in {<<>>, OldBtnId}, bn \in {<<>>, CheckoutAccId}}

\* Labels that hold the word `label` themselves.
PayLabel == Pay \o <<" ">> \o LabelWord
PayLabelNow == PayLabel \o <<" ", "N", "o", "w">>

\* More accessibility trees: a labeled element that is no button; a button
\* without a label; two buttons with the same label, one of them with a
\* name, in both orders; a button with an accessibilityIdentifier only, and
\* one with a name as well; the buttons "Pay label" and "Pay label now" in
\* both orders.
PatchTrees ==
    {Other(<<Node("XCUIElementTypeStaticText", Pay, <<>>, <<>>, <<>>)>>),
     Other(<<Button(<<>>, CheckoutAccId, <<>>)>>),
     Other(<<Button(Pay, <<>>, <<>>), Button(Pay, CheckoutAccId, <<>>)>>),
     Other(<<Button(Pay, CheckoutAccId, <<>>), Button(Pay, <<>>, <<>>)>>),
     Other(<<Node("XCUIElementTypeButton", Pay, <<>>, CheckoutAccId, <<>>)>>),
     Other(<<Node("XCUIElementTypeButton", Pay, OldBtnId, CheckoutAccId, <<>>)>>),
     Other(<<Button(PayLabelNow, <<>>, <<>>), Button(PayLabel, <<>>, <<>>)>>),
     Other(<<Button(PayLabel, <<>>, <<>>), Button(PayLabelNow, <<>>, <<>>)>>)}

\* The labels of the trees, and the old locators: a label predicate or a
\* bare label.
TreeLabels == {CheckOut, CheckoutNow, Pay, PayLabel, PayLabelNow}
OldLocators ==
    {LabelPredicate(CheckOut), CheckOut, LabelPredicate(Pay), Pay,
     LabelPredicate(PayLabel)}

\* The snapshot texts given to the generator: the trees as well-formed XML,
\* and a text that is no well-formed XML.
PatchSnapshots ==
    {Snapshot(TRUE, root, <<>>) :
        root \in TwoButtonTrees \cup XmlRoots \cup PatchTrees}
    \cup {Snapshot(FALSE, None, <<>>)}

\* generate_ios_locator_patch(old_predicate_or_label, xml_text,
\* prefer_accessibility), called on its own.
Call_generate_ios_locator_patch ==
    /\ call = NoCall
    /\ \E old \in OldLocators, xml \in PatchSnapshots, prefer \in BOOLEAN :
         call' = [fn |-> "generate_ios_locator_patch", old |-> old,
                  parses |-> xml.parses, root |-> xml.root,
                  prefer_accessibility |-> prefer,
                  result |-> generate_ios_locator_patch(old, xml, prefer)]
    /\ UNCHANGED notLibVars

\* find_button_label_candidates(root), called on its own with a parsed tree.
Call_find_button_label_candidates ==
    /\ call = NoCall
    /\ \E root \in TwoButtonTrees \cup XmlRoots :
         call' = [fn |-> "find_button_label_candidates", root |-> root,
                  result |-> find_button_label_candidates(root)]
    /\ UNCHANGED notLibVars

\* The exact maps of a fuzzy resolution: each exact map with its keys stored
\* in either order; the identifiers, and one that two keys of a map are a
\* prefix of while its normalized value is no key.
Reverse(seq) == [i \in DOMAIN seq |-> seq[Len(seq) + 1 - i]]
FuzzyMaps == ExactMaps \cup {Reverse(m) : m \in ExactMaps}
FuzzyIdents == Idents \cup {<<"a", "1", "b">>, <<"d">>}

\* map_by_fuzzy(value, exact_map), called on its own.
Call_map_by_fuzzy ==
    /\ call = NoCall
    /\ \E value \in FuzzyIdents, exact_map \in FuzzyMaps :
         call' = [fn |-> "map_by_fuzzy", value |-> value,
                  exact_map |-> exact_map,
                  result |-> map_by_fuzzy(value, exact_map)]
    /\ UNCHANGED notLibVars

NextCalls ==
    \/ Call_choose_logical_for_rn
    \/ Call_choose_logical_generic
    \/ Call_validate
    \/ Call_generate_ios_locator_patch
    \/ Call_find_button_label_candidates
    \/ Call_map_by_fuzzy

InitCalls == OrchIdle /\ MapIdle /\ LibIdle /\ CliIdle

SpecCalls == InitCalls /\ [][NextCalls]_vars

\* ------------------------------------------------------------------------
\* Properties of the library functions
\* ------------------------------------------------------------------------

\* The last call was one of the two choosers.
ChooserCalled ==
    call.fn \in {"choose_logical_for_rn", "choose_logical_generic"}

\* Some pattern of the list matches the value.
SomePatternMatches(value, patterns) ==
    \E i \in DOMAIN patterns : Matches(patterns[i], value)

C19_ValidateContract ==
    call.fn = "validate" =>
        LET badWorkspace == call.workspace # "dir"
            badPatch == ~call.patchIsDict
            r == call.result
        IN /\ r.ok <=> ~(badWorkspace \/ badPatch)
           /\ ~r.ok => (r.reason # "none" /\ ~r.tests_passed)
           /\ r.ok => (r.reason = "none" /\ r.tests_passed)
           /\ badWorkspace => r.reason = "Workspace not found"
           /\ (badPatch /\ ~badWorkspace) => r.reason = "Patch is not a dict"

\* C19 witness: validate was called with a workspace that is a regular file
\* and a patch that is no dict.
C19_Witness ==
    /\ call.fn = "validate"
    /\ call.workspace = "file" /\ ~call.patchIsDict
    /\ ~call.result.ok

\* The button of the tree that carries the label (the trees of TwoButtonTrees
\* hold one).
ButtonLabeled(root, label) ==
    LET nodes == iter_nodes_DocumentOrder(<<root>>) IN
    nodes[CHOOSE i \in DOMAIN nodes :
              EndsWithButton(nodes[i].type) /\ nodes[i].label = label]

\* C15 (as claimed, Scenario B): on every tree with exactly the two buttons
\* "Check Out" and "Checkout Now", generate_ios_locator_patch with the old
\* locator `label == "Check Out"` chooses the label "Checkout Now", and the
\* strategy is accessibility_id if that button has a name.
C15_ScenarioB ==
    (/\ call.fn = "generate_ios_locator_patch"
     /\ call.root \in TwoButtonTrees
     /\ call.old = LabelPredicate(CheckOut)
     /\ call.prefer_accessibility) =>
        /\ call.result # None
        /\ call.result.label = CheckoutNow
        /\ ButtonLabeled(call.root, CheckoutNow).name # <<>> =>
              call.result.strategy = "accessibility_id"

\* ------------------------------------------------------------------------
\* Properties of the web strategy within run_once
\* ------------------------------------------------------------------------

NewLocatorValue == IF platform = "ios" THEN patch.value ELSE patch.new_id

\* The lines of a text that hold the LOCATOR statement.
LocatorLines(text) == {i \in DOMAIN text : text[i].kind = "LOCATOR"}

\* C17 (as claimed, single-statement patch): when the apply step ran on a
\* target artifact with one LOCATOR line whose value is not the new one, the
\* patched text differs from the original in that line and in no other.
C17_SingleStatementPatch ==
    (/\ applied # None
     /\ Cardinality(LocatorLines(applied.original_text)) = 1
     /\ \A i \in LocatorLines(applied.original_text) :
           applied.original_text[i].value # NewLocatorValue) =>
        /\ Len(applied.patched_text) = Len(applied.original_text)
        /\ {i \in DOMAIN applied.original_text :
               applied.patched_text[i] # applied.original_text[i]}
           = LocatorLines(applied.original_text)
        /\ \A i \in LocatorLines(applied.original_text) :
              applied.patched_text[i] = LocatorLine(NewLocatorValue)

\* The text a diff yields from a text: each hunk replaces one line.
RECURSIVE ApplyDiff(_, _)
ApplyDiff(diff, text) ==
    IF diff = <<>> THEN text
    ELSE ApplyDiff(Tail(diff),
                   [text EXCEPT ![Head(diff).line] = Head(diff).new])

\* C18 (diff correctness): for every (ok, diff, patched_text, original_text)
\* the apply step produced, the diff applied to the original text yields the
\* patched text, and the diff is empty only when the two texts are equal.
C18_DiffReproducesPatchedText ==
    applied # None =>
        /\ ApplyDiff(applied.diff, applied.original_text) = applied.patched_text
        /\ applied.diff = EmptyDiff =>
              applied.patched_text = applied.original_text

\* C18 witness: the apply step produced its tuple for a target artifact that
\* holds a LOCATOR line with a value other than the new one.
C18_Witness ==
    /\ applied # None
    /\ LocatorLines(applied.original_text) # {}
    /\ \A i \in LocatorLines(applied.original_text) :
          applied.original_text[i].value # NewLocatorValue
    /\ applied.ok

\* ------------------------------------------------------------------------
\* providers: the LLM provider multiplexer
\* ------------------------------------------------------------------------

\* The provider names get_llm knows, as characters.
OpenAINames ==
    {<<"o", "p", "e", "n", "a", "i">>, <<"o", "p", "e", "n", "_", "a", "i">>,
     <<"o", "a", "i">>}
RuleBasedNames ==
    {<<"r", "u", "l", "e", "b", "a", "s", "e", "d">>,
     <<"r", "u", "l", "e", "-", "b", "a", "s", "e", "d">>,
     <<"s", "t", "u", "b">>, <<"f", "a", "k", "e">>}

\* The mutated multiplexer: the provider name is not lower-cased.
get_llm_NoLower(provider, openai_key) ==
    LET p == strip(provider) IN
    IF p \in OpenAINames THEN "OpenAIChatLLM"
    ELSE IF p \in RuleBasedNames THEN "_RuleBasedLLM"
    ELSE IF openai_key THEN "OpenAIChatLLM" ELSE "_RuleBasedLLM"

\* get_llm(provider, openai_key, ...): the class of the provider it returns;
\* openai_key is whether the key is a non-empty string.
get_llm(provider, openai_key) ==
    LET p == lower(strip(provider)) IN
    IF p \in OpenAINames THEN "OpenAIChatLLM"
    ELSE IF p \in RuleBasedNames THEN "_RuleBasedLLM"
    ELSE IF openai_key THEN "OpenAIChatLLM" ELSE "_RuleBasedLLM"

\* A platform locator: the empty string, or the XPath built around an
\* identifier, by the attributes it tests in their order.
NoLocator == [kind |-> "empty"]
ContentDescOrResourceId(id) == [kind |-> "content-desc|resource-id", id |-> id]
ResourceIdOrContentDesc(id) == [kind |-> "resource-id|content-desc", id |-> id]
NameIs(id) == [kind |-> "name", id |-> id]

\* The logical name OpenAIChatLLM guesses for an identifier (none of the
\* model starts with product_sku_): us.mappings.auto.<safe>, by its <safe>.
\* re.sub(r"[^a-zA-Z0-9]+", "_", ident).strip("_"): each run of tokens that
\* are no letters or digits becomes one "_", none is left at either end.
NonAlnum == Separators \cup {":", "SP"}
RECURSIVE CollapseNonAlnum(_)
CollapseNonAlnum(s) ==
    IF s = <<>> THEN <<>>
    ELSE IF Head(s) \notin NonAlnum THEN <<Head(s)>> \o CollapseNonAlnum(Tail(s))
    ELSE IF Len(s) >= 2 /\ s[2] \in NonAlnum THEN CollapseNonAlnum(Tail(s))
    ELSE <<"_">> \o CollapseNonAlnum(Tail(s))

RECURSIVE StripUnderscores(_)
StripUnderscores(s) ==
    IF s # <<>> /\ Head(s) = "_" THEN StripUnderscores(Tail(s))
    ELSE IF s # <<>> /\ s[Len(s)] = "_" THEN StripUnderscores(DropTail(s, 1))
    ELSE s

Safe(ident) == StripUnderscores(CollapseNonAlnum(ident))

GuessedLogical(ident) == [tag |-> "str", guessed_from |-> Safe(ident)]

\* The suggestion OpenAIChatLLM makes for one identifier.
Suggestion(platform_name, ident) ==
    [identifier |-> ident,
     logical |-> GuessedLogical(ident),
     android |-> IF platform_name = "ios_native" THEN NoLocator
                 ELSE ContentDescOrResourceId(ident),
     ios |-> IF platform_name \in {"react_native", "ios_native"}
             THEN NameIs(ident) ELSE NoLocator]

\* The no-op patch of both providers, with the summary of the request.
Noop(payload) ==
    [patch |-> "noop", explanation |-> "rulebased fallback",
     prompt_summary |-> payload]

\* OpenAIChatLLM.generate_patch(payload)
OpenAIChatLLM_generate_patch(payload) ==
    IF payload.task = "map_identifiers"
    THEN [suggestions |->
              [i \in DOMAIN payload.identifiers |->
                  Suggestion(payload.platform, payload.identifiers[i])],
          model |-> "gpt-4o"]
    ELSE Noop(payload)

\* _RuleBasedLLM.generate_patch(prompt)
RuleBasedLLM_generate_patch(prompt) == Noop(prompt)

\* llm.generate_patch(payload) of a provider of the class.
generate_patch(class, payload) ==
    IF class = "OpenAIChatLLM" THEN OpenAIChatLLM_generate_patch(payload)
    ELSE RuleBasedLLM_generate_patch(payload)

\* ------------------------------------------------------------------------
\* cli.update_mappings_from_app
\* ------------------------------------------------------------------------

\* rn_value_to_platform_locators(testid_value)
rn_value_to_platform_locators(testid_value) ==
    [android |-> ContentDescOrResourceId(testid_value),
     ios |-> NameIs(testid_value)]

\* The logical name the rule-based mapping chooses for an identifier.
ChooseLogical(cfg, id) ==
    IF cfg.platform = "react_native"
    THEN choose_logical_for_rn(id, cfg.exact_map, cfg.patterns)
    ELSE choose_logical_generic(id, cfg.exact_map, cfg.patterns)

\* The update the rule-based mapping appends for an identifier it resolved.
RuleUpdate(cfg, id) ==
    LET ln == ChooseLogical(cfg, id) IN
    CASE cfg.platform = "react_native" ->
           <<ln, rn_value_to_platform_locators(id).android,
             rn_value_to_platform_locators(id).ios>>
      [] cfg.platform = "ios_native" -> <<ln, NoLocator, NameIs(id)>>
      [] OTHER ->
           <<ln,
             IF ":" \in Range(id) THEN ResourceIdOrContentDesc(id)
             ELSE ContentDescOrResourceId(id),
             NoLocator>>

\* The rule-based mapping: the identifiers a chooser gave a name to.
RuleResolved(cfg, id_list) ==
    SelectSeq(id_list, LAMBDA id : Truthy(ChooseLogical(cfg, id)))

\* The mutated selection: every discovered identifier is taken.
Unmapped_All(id_list, mapped) == id_list

\* unmapped = [i for i in ids if i not in rule_mapped]
Unmapped(id_list, mapped) == SelectSeq(id_list, LAMBDA i : i \notin mapped)

\* The suggestions taken from the response: resp["suggestions"] of a dict
\* that has the list, else none.
SuggestionsOf(response) ==
    IF "suggestions" \in DOMAIN response THEN response.suggestions ELSE <<>>

\* The merge of the suggestions into the update list: a suggestion without
\* a logical name is skipped, a triple already seen is not added again.
RECURSIVE Merge(_, _)
Merge(list, suggestions) ==
    IF suggestions = <<>> THEN list
    ELSE LET s == Head(suggestions)
             tpl == <<s.logical, s.android, s.ios>>
         IN IF ~Truthy(s.logical) \/ tpl \in Range(list)
            THEN Merge(list, Tail(suggestions))
            ELSE Merge(Append(list, tpl), Tail(suggestions))

\* ---- the inputs of update_mappings_from_app ----

AppPlatforms == {"react_native", "ios_native", "android_native", "flutter"}

AppPatternLists ==
    {<<>>,
     <<Pattern("prefix", <<"a">>, PyStr("LP1"))>>,
     <<Pattern("invalid", <<>>, PyStr("LX")),
       Pattern("prefix", <<"b">>, PyStr("LP3"))>>}

\* The app configuration the command reads off cfg.app: of a Config that
\* load_config built it is empty (react_native, no map, no patterns); of a
\* Config that carries the section it is any of these.
AppConfigs ==
    [platform : AppPlatforms, exact_map : ExactMaps, patterns : AppPatternLists]

\* A discovery yields at most this many identifiers.
MaxIds == 2

\* The discovered identifiers: no identifier twice.
IdLists ==
    {l \in SeqsUpTo(Idents, MaxIds) :
        \A i, j \in DOMAIN l : i # j => l[i] # l[j]}

\* cfg.llm.provider, with "SP" for a blank, and cfg.llm.openai_api_key.
ProviderNames ==
    {<<"r", "u", "l", "e", "b", "a", "s", "e", "d">>,
     <<"R", "u", "l", "e", "B", "a", "s", "e", "d">>,
     <<"SP", "R", "U", "L", "E", "-", "B", "A", "S", "E", "D", "SP">>,
     <<"S", "T", "U", "B">>,
     <<"F", "a", "k", "e">>,
     <<"O", "p", "e", "n", "A", "I">>,
     <<"c", "l", "a", "u", "d", "e">>,
     <<>>}

LlmConfigs == [provider : ProviderNames, openai_api_key : BOOLEAN]

\* The logical argument: "" for no filter, or a logical name.
LogicalFilters == {PyStr(""), PyStr("LE")}

AppInit ==
    /\ cli_pc = "app_discover"
    /\ llm_cfg \in LlmConfigs
    /\ app_cfg \in AppConfigs
    /\ app_ids \in IdLists
    /\ rule_mapped = {}
    /\ updates_rb = <<>>
    /\ llm_calls = <<>>
    /\ resp = None
    /\ llm_suggestions = <<>>
    /\ updates = <<>>
    /\ run_prompt = None
    /\ run_workspace = ""
    /\ validation = None
    /\ artifacts = <<>>
    /\ ledger = <<>>
    /\ printed = <<>>
    /\ cli_exc = None
    /\ github_token \in BOOLEAN
    /\ apply_calls = <<>>
    /\ total_changed = 0
    /\ vcs = <<>>
    /\ pr = None

InitApp == OrchIdle /\ MapIdle /\ LibIdle /\ AppInit

\* The configuration snapshot and the discovery: an unknown platform ends
\* the command with a noop.
AppDiscover ==
    /\ cli_pc = "app_discover"
    /\ IF app_cfg.platform \in {"react_native", "ios_native", "android_native"}
       THEN /\ artifacts' = artifacts \o
                   <<"config_app_snapshot.json", "identifiers_discovered.json",
                     "identifiers_discovered_runtime.json">>
            /\ cli_pc' = "app_rule_map"
            /\ UNCHANGED printed
       ELSE /\ artifacts' = artifacts \o
                   <<"config_app_snapshot.json", "identifiers_discovered.json">>
            /\ printed' = Append(printed, "noop")
            /\ cli_pc' = "returned"
    /\ UNCHANGED <<llm_cfg, app_cfg, app_ids, rule_mapped, updates_rb,
                   llm_calls, resp, llm_suggestions, updates, run_prompt, run_workspace,
                   validation, ledger, cli_exc>>
    /\ UNCHANGED prVars
    /\ UNCHANGED notCliVars

\* The rule-based mapping of the discovered identifiers.
AppRuleMap ==
    /\ cli_pc = "app_rule_map"
    /\ LET resolved == RuleResolved(app_cfg, app_ids) IN
       /\ rule_mapped' = Range(resolved)
       /\ updates_rb' = [i \in DOMAIN resolved |-> RuleUpdate(app_cfg, resolved[i])]
    /\ cli_pc' = "app_llm"
    /\ UNCHANGED <<llm_cfg, app_cfg, app_ids, llm_calls, resp, llm_suggestions,
                   updates, run_prompt, run_workspace, validation, artifacts, ledger,
                   printed, cli_exc>>
    /\ UNCHANGED prVars
    /\ UNCHANGED notCliVars

\* The LLM for the identifiers still unmapped: none, no call.
AppAskLLM ==
    /\ cli_pc = "app_llm"
    /\ LET unmapped == Unmapped(app_ids, rule_mapped) IN
       IF unmapped = <<>>
       THEN UNCHANGED <<llm_calls, resp, llm_suggestions, artifacts>>
       ELSE LET llm == get_llm(llm_cfg.provider, llm_cfg.openai_api_key)
                llm_req == [task |-> "map_identifiers",
                            platform |-> app_cfg.platform,
                            identifiers |-> unmapped]
                r == generate_patch(llm, llm_req)
            IN /\ llm_calls' = Append(llm_calls, [class |-> llm, payload |-> llm_req])
               /\ resp' = r
               /\ llm_suggestions' = SuggestionsOf(r)
               /\ artifacts' = artifacts \o
                      <<"llm_info.json", "llm_request_identifiers.json",
                        "llm_response_identifiers.json">>
    /\ cli_pc' = "app_plan"
    /\ UNCHANGED <<llm_cfg, app_cfg, app_ids, rule_mapped, updates_rb, updates,
                   run_prompt, run_workspace, validation, ledger, printed,
                   cli_exc>>
    /\ UNCHANGED prVars
    /\ UNCHANGED notCliVars

\* The merge, the logical filter, the plan and the manifest of the vector
\* index. No update ends the command with a noop.
AppPlan ==
    /\ cli_pc = "app_plan"
    /\ \E logical \in LogicalFilters :
         LET merged == Merge(updates_rb, llm_suggestions)
             kept == IF Truthy(logical) /\ merged # <<>>
                     THEN SelectSeq(merged, LAMBDA u : u[1] = logical)
                     ELSE merged
         IN /\ updates' = kept
            /\ artifacts' = artifacts \o
                   <<"identifiers_update_plan.json",
                     "rag_index_manifest_update_from_app.json">>
            /\ IF kept = <<>>
               THEN /\ printed' = Append(printed, "noop")
                    /\ cli_pc' = "returned"
               ELSE /\ UNCHANGED printed
                    /\ cli_pc' = "app_apply"
    /\ UNCHANGED <<llm_cfg, app_cfg, app_ids, rule_mapped, updates_rb,
                   llm_calls, resp, llm_suggestions, run_prompt, run_workspace, validation,
                   ledger, cli_exc>>
    /\ UNCHANGED prVars
    /\ UNCHANGED notCliVars

\* ---- source control and the pull request ----

\* GitHubClient.open_pr(title, head, base, body): the pull request as the
\* API returns it, or {"error": ...} where the request raised.
open_pr(api_ok) ==
    IF api_ok THEN [html_url |-> "url"] ELSE [error |-> "HTTPError"]

\* The git commands of a command that has local changes and a token:
\* checkout -b and commit with check=False, add and push with check=True.
\* The commands attempted, and whether CalledProcessError left them.
GitCommands(add_ok, push_ok) ==
    [ops |-> IF add_ok THEN <<"checkout", "add", "commit", "push">>
             ELSE <<"checkout", "add">>,
     raised |-> ~add_ok \/ ~push_ok]

\* What the environment of the source-control step decides: git add and
\* git push, the GitHub API, and whether the gh CLI is installed.
PrEnvs ==
    [add_ok : BOOLEAN, push_ok : BOOLEAN, api_ok : BOOLEAN,
     gh_installed : BOOLEAN]

\* The source-control step of update_mappings_by_name and of
\* heal_text_rename: the operations attempted, what open_pr returned and
\* the status printed.
PullRequestStep(env) ==
    LET git == GitCommands(env.add_ok, env.push_ok) IN
    IF git.raised
    THEN [vcs |-> git.ops, pr |-> None, status |-> "partial"]
    ELSE [vcs |-> Append(git.ops, "open_pr"), pr |-> open_pr(env.api_ok),
          status |-> "success"]

\* The source-control step of update_mappings_from_app: the API client
\* first, then `gh pr create` where that gave no URL and gh is installed.
PullRequestStepFromApp(env) ==
    LET git == GitCommands(env.add_ok, env.push_ok)
        api == open_pr(env.api_ok)
    IN IF git.raised
       THEN [vcs |-> git.ops, pr |-> None, status |-> "partial"]
       ELSE [vcs |-> git.ops \o <<"open_pr">> \o
                     (IF ~env.api_ok /\ env.gh_installed
                      THEN <<"gh_pr_create">> ELSE <<>>),
             pr |-> api, status |-> "success"]

\* The mutated loop test: the loop over the updates ends after the first.
LoopDone_AfterFirst(done, planned) == Len(done) >= 1 \/ planned = <<>>

\* `for logical_name, android_id, ios_id in updates` has no update left.
LoopDone(done, planned) == Len(done) = Len(planned)

\* One turn of the loop: the next update is applied across the tests repo,
\* which decides the `updated` count of the call.
AppApplyOne ==
    /\ cli_pc = "app_apply"
    /\ ~LoopDone(apply_calls, updates)
    /\ \E updated \in {0, 1} :
         /\ apply_calls' = Append(apply_calls, updates[Len(apply_calls) + 1])
         /\ total_changed' = total_changed + updated
    /\ UNCHANGED <<cli_pc, llm_cfg, app_cfg, app_ids, rule_mapped, updates_rb,
                   llm_calls, resp, llm_suggestions, updates, run_prompt,
                   run_workspace, validation, artifacts, ledger, printed,
                   cli_exc, github_token, vcs, pr>>
    /\ UNCHANGED notCliVars

\* After the loop: the summary, and the noop where nothing changed.
AppSummary ==
    /\ cli_pc = "app_apply"
    /\ LoopDone(apply_calls, updates)
    /\ artifacts' = Append(artifacts, "identifiers_update_summary.json")
    /\ IF total_changed = 0
       THEN /\ printed' = Append(printed, "noop")
            /\ cli_pc' = "returned"
       ELSE /\ UNCHANGED printed
            /\ cli_pc' = "app_pr"
    /\ UNCHANGED <<llm_cfg, app_cfg, app_ids, rule_mapped, updates_rb,
                   llm_calls, resp, llm_suggestions, updates, run_prompt,
                   run_workspace, validation, ledger, cli_exc>>
    /\ UNCHANGED prVars
    /\ UNCHANGED notCliVars

\* The single pull request with all changes, where a token was given.
AppPullRequest ==
    /\ cli_pc = "app_pr"
    /\ IF github_token
       THEN \E env \in PrEnvs :
              LET r == PullRequestStepFromApp(env) IN
              /\ vcs' = r.vcs
              /\ pr' = r.pr
              /\ printed' = Append(printed, r.status)
              /\ artifacts' = IF r.pr = None THEN artifacts
                              ELSE Append(artifacts, "pull_request.json")
       ELSE /\ printed' = Append(printed, "success")
            /\ UNCHANGED <<vcs, pr, artifacts>>
    /\ cli_pc' = "returned"
    /\ UNCHANGED <<llm_cfg, app_cfg, app_ids, rule_mapped, updates_rb,
                   llm_calls, resp, llm_suggestions, updates, run_prompt,
                   run_workspace, validation, ledger, cli_exc, github_token,
                   apply_calls, total_changed>>
    /\ UNCHANGED notCliVars

NextApp ==
    \/ AppDiscover
    \/ AppRuleMap
    \/ AppAskLLM
    \/ AppPlan
    \/ AppApplyOne
    \/ AppSummary
    \/ AppPullRequest

SpecApp == InitApp /\ [][NextApp]_vars

\* ------------------------------------------------------------------------
\* Properties of update_mappings_from_app
\* ------------------------------------------------------------------------

\* An identifier one of the three deterministic steps resolves: it is a key
\* of the exact map, or a pattern that matches names it, or the fuzzy step
\* names it.
ResolvedByAStep(cfg, id) ==
    \/ id \in Keys(cfg.exact_map)
    \/ Truthy(map_by_patterns(id, cfg.patterns))
    \/ Truthy(map_by_fuzzy(id, cfg.exact_map))

\* The command is past its LLM step.
PastLLMStep ==
    \/ cli_pc \in {"app_plan", "app_apply"}
    \/ cli_pc = "returned" /\ "identifiers_update_plan.json" \in Range(artifacts)

\* C13: in update_mappings_from_app the identifiers sent to the LLM provider
\* are exactly the discovered identifiers that none of the three
\* deterministic steps (exact, pattern, fuzzy) resolved: a resolved
\* identifier is never sent, and the provider is not invoked at all when
\* every discovered identifier was resolved.
C13_OnlyUnresolvedSentToLLM ==
    LET unresolved ==
            SelectSeq(app_ids, LAMBDA id : ~ResolvedByAStep(app_cfg, id))
    IN /\ \A i \in DOMAIN llm_calls :
            /\ llm_calls[i].payload.identifiers = unresolved
            /\ \A id \in Range(llm_calls[i].payload.identifiers) :
                  ~ResolvedByAStep(app_cfg, id)
       /\ PastLLMStep =>
            IF unresolved = <<>> THEN llm_calls = <<>> ELSE Len(llm_calls) = 1

\* C13 witness: of two discovered identifiers one was resolved and the other
\* was not, and the LLM was asked for the other one alone.
C13_Witness ==
    /\ cli_pc = "returned"
    /\ Len(app_ids) = 2
    /\ Cardinality(rule_mapped) = 1
    /\ Len(llm_calls) = 1
    /\ Len(llm_calls[1].payload.identifiers) = 1
    /\ llm_calls[1].payload.identifiers[1] \notin rule_mapped

\* The configured provider name is one of the rule-based names, in any case.
RuleBasedConfigured == lower(llm_cfg.provider) \in RuleBasedNames

Retrievals == {<<>>, <<"doc">>}

\* PromptBuilder().build(failure, retrieved)
build(retrieved) == [task |-> "propose_patch", context |-> retrieved]

RunInit ==
    /\ cli_pc = "run_prompt"
    /\ llm_cfg \in LlmConfigs
    /\ app_cfg = [platform |-> "react_native", exact_map |-> <<>>,
                  patterns |-> <<>>]
    /\ app_ids = <<>>
    /\ rule_mapped = {}
    /\ updates_rb = <<>>
    /\ llm_calls = <<>>
    /\ resp = None
    /\ llm_suggestions = <<>>
    /\ updates = <<>>
    /\ run_prompt = None
    /\ run_workspace \in Workspaces
    /\ validation = None
    /\ artifacts = <<>>
    /\ ledger = <<>>
    /\ printed = <<>>
    /\ cli_exc = None
    /\ PrIdle

InitRun == OrchIdle /\ MapIdle /\ LibIdle /\ RunInit

\* An exception raised at `at` leaves the command.
CliRaise(cls, at) ==
    /\ cli_exc' = [tag |-> "exc", cls |-> cls, at |-> at]
    /\ cli_pc' = "raised"

\* artifacts.put_json(name, obj) after the guarded writes `before`: the
\* write, or the OSError of the open.
put_json(before, name, next) ==
    \E io_ok \in BOOLEAN :
        IF io_ok
        THEN /\ artifacts' = artifacts \o before \o <<name>>
             /\ cli_pc' = next
             /\ cli_exc' = cli_exc
        ELSE /\ CliRaise("OSError", name)
             /\ artifacts' = artifacts \o before

\* Retrieval and the manifest of the vector index, both guarded: a failure
\* of retrieval leaves retrieved empty. Then the prompt and prompt.json.
RunPrompt ==
    /\ cli_pc = "run_prompt"
    /\ \E retrieved \in Retrievals,
          manifest \in {<<>>, <<"rag_index_manifest_run.json">>} :
         /\ run_prompt' = build(retrieved)
         /\ put_json(manifest, "prompt.json", "run_generate")
    /\ UNCHANGED <<llm_cfg, app_cfg, app_ids, rule_mapped, updates_rb,
                   llm_calls, resp, llm_suggestions, updates, run_workspace,
                   validation, ledger, printed>>
    /\ UNCHANGED prVars
    /\ UNCHANGED notCliVars

\* llm_info.json (guarded), the provider, its patch, and patch.json.
RunGenerate ==
    /\ cli_pc = "run_generate"
    /\ LET llm == get_llm(llm_cfg.provider, llm_cfg.openai_api_key) IN
       /\ llm_calls' = Append(llm_calls, [class |-> llm, payload |-> run_prompt])
       /\ resp' = generate_patch(llm, run_prompt)
    /\ \E info \in {<<>>, <<"llm_info.json">>} :
         put_json(info, "patch.json", "run_validate")
    /\ UNCHANGED <<llm_cfg, app_cfg, app_ids, rule_mapped, updates_rb,
                   llm_suggestions, updates, run_prompt, run_workspace,
                   validation, ledger, printed>>
    /\ UNCHANGED prVars
    /\ UNCHANGED notCliVars

\* PatchValidator({}).validate(workspace, patch) and validation.json.
RunValidate ==
    /\ cli_pc = "run_validate"
    /\ validation' = validate(run_workspace, TRUE)
    /\ put_json(<<>>, "validation.json", "run_ledger")
    /\ UNCHANGED <<llm_cfg, app_cfg, app_ids, rule_mapped, updates_rb,
                   llm_calls, resp, llm_suggestions, updates, run_prompt,
                   run_workspace, ledger, printed>>
    /\ UNCHANGED prVars
    /\ UNCHANGED notCliVars

\* rec = {"ts": utcnow, **(entry or {})}: the entry with a timestamp, its
\* own where it brings one. An entry is a function from keys to values.
LedgerRecord(entry) ==
    [k \in {"ts"} \cup DOMAIN entry |->
        IF k \in DOMAIN entry THEN entry[k] ELSE "utcnow"]

\* The mutated write: the ledger is opened for writing, not for appending.
AppendLine_Truncating(content, rec) == <<rec>>

\* open(ledger_path, "a").write(json.dumps(rec) + "\n"): the content after.
AppendLine(content, rec) == Append(content, rec)

\* The entry auto_merge hands to write_ledger.
AutoMergeEntry == [action |-> "auto_merge", result |-> "merged"]

\* LocalCIOrchestrator.write_ledger(entry): the record appended to the
\* ledger, or the OSError of the open.
write_ledger(entry, next) ==
    \E io_ok \in BOOLEAN :
        IF io_ok
        THEN /\ ledger' = AppendLine(ledger, LedgerRecord(entry))
             /\ next
        ELSE /\ CliRaise("OSError", "patch_ledger")
             /\ ledger' = ledger
             /\ printed' = printed

\* result.get("ok"): auto_merge writes the ledger and the command prints
\* its success.
RunMerge ==
    /\ cli_pc = "run_ledger"
    /\ validation.ok
    /\ write_ledger(AutoMergeEntry,
                    /\ printed' = Append(printed, "success")
                    /\ cli_pc' = "returned"
                    /\ cli_exc' = cli_exc)
    /\ UNCHANGED <<llm_cfg, app_cfg, app_ids, rule_mapped, updates_rb,
                   llm_calls, resp, llm_suggestions, updates, run_prompt,
                   run_workspace, validation, artifacts>>
    /\ UNCHANGED prVars
    /\ UNCHANGED notCliVars

\* Validation not ok: the failed record goes to the ledger and SystemExit
\* leaves the command.
RunReject ==
    /\ cli_pc = "run_ledger"
    /\ ~validation.ok
    /\ write_ledger([status |-> "failed"],
                    /\ printed' = printed
                    /\ CliRaise("SystemExit", "Validation failed; patch not merged."))
    /\ UNCHANGED <<llm_cfg, app_cfg, app_ids, rule_mapped, updates_rb,
                   llm_calls, resp, llm_suggestions, updates, run_prompt,
                   run_workspace, validation, artifacts>>
    /\ UNCHANGED prVars
    /\ UNCHANGED notCliVars

NextRun ==
    \/ RunPrompt
    \/ RunGenerate
    \/ RunValidate
    \/ RunMerge
    \/ RunReject

SpecRun == InitRun /\ [][NextRun]_vars

\* ------------------------------------------------------------------------
\* Properties of cli.run
\* ------------------------------------------------------------------------

\* C20: in cli.run the only condition that ends the run abnormally is
\* validation ok=false: an exception that leaves the run is the SystemExit
\* raised for a validation that is not ok, and a failure of a collaborator
\* call (retrieval, manifest, LLM info, generate_patch, artifact put, ledger
\* write) never leaves it.
C20_OnlyValidationFailureIsFatal ==
    cli_exc # None =>
        /\ cli_exc.cls = "SystemExit"
        /\ validation # None
        /\ ~validation.ok

\* ------------------------------------------------------------------------
\* Properties of the strategy dispatch and of the end of a cycle
\* ------------------------------------------------------------------------

Committed == patch_diff # None
RolledBack == pc = "done" /\ "rolled_back" \in DOMAIN ret

\* C29: in every cycle that reached the apply step exactly one of commit and
\* rollback happened when the cycle has ended: patch.diff was written, if
\* and only if the status is 'healed', or the target artifact was
\* overwritten with the saved original text, if and only if the status is
\* 'failed_validation'; the returned result has rolled_back true exactly
\* where the rollback write happened.
C29_CommitXorRollback ==
    (CycleEnded /\ applied # None) =>
        /\ Committed \/ RolledBack
        /\ ~(Committed /\ RolledBack)
        /\ Committed <=> (pc = "done" /\ ret.status = "healed")
        /\ RolledBack <=> (pc = "done" /\ ret.status = "failed_validation"
                           /\ ret.rolled_back)

\* ------------------------------------------------------------------------
\* Properties of the accessibility tree helpers
\* ------------------------------------------------------------------------

\* The non-empty labels of the Button-typed nodes of the tree in document
\* order, each label once, at its first occurrence.
ButtonLabelsInDocumentOrder(root) ==
    LET nodes == iter_nodes_DocumentOrder(<<root>>)
        buttons == SelectSeq(nodes,
                       LAMBDA n : EndsWithButton(n.type) /\ n.label # <<>>)
    IN Uniq([i \in DOMAIN buttons |-> buttons[i].label], {})

\* C30: find_button_label_candidates returns the non-empty labels of all
\* Button-typed nodes in document order, duplicates removed keeping the
\* first occurrence, for every tree shape.
C30_CandidatesInDocumentOrder ==
    call.fn = "find_button_label_candidates" =>
        call.result = ButtonLabelsInDocumentOrder(call.root)

\* The statuses of a structured status payload.
Statuses == {"success", "partial", "noop", "failed"}

\* The run came to its end by its own decision: it returned, or it raised
\* the SystemExit of a validation that is not ok.
RunTerminated ==
    \/ cli_pc = "returned"
    \/ cli_pc = "raised" /\ cli_exc.cls = "SystemExit"

\* C22: every terminating path of a command prints exactly one structured
\* status payload whose status is one of success, partial, noop, failed;
\* the path of cli.run on which validation fails is one of them.
C22_OneStatusPayloadPerRun ==
    RunTerminated => (Len(printed) = 1 /\ printed[1] \in Statuses)

\* C25: every run that reached validation has appended exactly one ledger
\* record when it ends: a record with result 'merged' if and only if
\* validation ok is true, a record with status 'failed' if and only if it is
\* false.
C25_OneLedgerRecordPerRun ==
    (validation # None /\ cli_pc \in {"returned", "raised"}) =>
        /\ Len(ledger) = 1
        /\ ("result" \in DOMAIN ledger[1] /\ ledger[1].result = "merged")
              <=> validation.ok
        /\ ("status" \in DOMAIN ledger[1] /\ ledger[1].status = "failed")
              <=> ~validation.ok

\* ------------------------------------------------------------------------
\* LocalCIOrchestrator: the patch ledger under a sequence of calls
\* ------------------------------------------------------------------------

\* The entries handed to write_ledger: a failed record, one that brings its
\* own ts, one with other keys, and the empty entry (None or {}).
LedgerEntries ==
    {[status |-> "failed"],
     [ts |-> "2020-01-01", status |-> "failed"],
     [action |-> "note"],
     <<>>}

\* The ledger holds at most this many records.
MaxLedger == 3

\* What a call on the ledger leaves alone.
notLedgerVars ==
    <<orchVars, mapVars, cli_pc, llm_cfg, app_cfg, app_ids, rule_mapped,
      updates_rb, llm_calls, resp, llm_suggestions, updates, run_prompt,
      run_workspace, validation, artifacts, printed, cli_exc, prVars>>

\* The ledger after a call with the entry: the open of the ledger may raise
\* OSError, and then nothing is written.
LedgerCall(fn, entry, io_ok) ==
    /\ call' = [fn |-> fn, entry |-> entry, raised |-> ~io_ok]
    /\ ledger' = IF io_ok THEN AppendLine(ledger, LedgerRecord(entry))
                 ELSE ledger

\* orchestrator.write_ledger(entry)
Call_write_ledger ==
    /\ Len(ledger) < MaxLedger
    /\ \E entry \in LedgerEntries, io_ok \in BOOLEAN :
         LedgerCall("write_ledger", entry, io_ok)
    /\ UNCHANGED notLedgerVars

\* orchestrator.auto_merge(workspace, patch, validation)
Call_auto_merge ==
    /\ Len(ledger) < MaxLedger
    /\ \E io_ok \in BOOLEAN : LedgerCall("auto_merge", AutoMergeEntry, io_ok)
    /\ UNCHANGED notLedgerVars

NextLedger ==
    \/ Call_write_ledger
    \/ Call_auto_merge

InitLedger == OrchIdle /\ MapIdle /\ LibIdle /\ CliIdle

SpecLedger == InitLedger /\ [][NextLedger]_vars

\* C24: the ledger is append-only: after a call of write_ledger or
\* auto_merge that returns, the ledger is what it was before the call
\* followed by exactly one new record; a call that raises leaves it as it
\* was; no record written before is changed, reordered or removed, and
\* every record carries a timestamp.
C24_LedgerAppendOnly ==
    [][/\ IF call'.raised THEN ledger' = ledger
          ELSE /\ Len(ledger') = Len(ledger) + 1
               /\ SubSeq(ledger', 1, Len(ledger)) = ledger
       /\ \A i \in DOMAIN ledger' : "ts" \in DOMAIN ledger'[i]]_vars

\* C24 witness: auto_merge returned on a ledger that held two records, and
\* the ledger holds them and the merged record after them.
C24_Witness ==
    /\ call.fn = "auto_merge" /\ ~call.raised
    /\ Len(ledger) = 3
    /\ ledger[1] = [ts |-> "utcnow", status |-> "failed"]
    /\ ledger[2] = [ts |-> "2020-01-01", status |-> "failed"]
    /\ ledger[3].result = "merged"


\* ------------------------------------------------------------------------
\* Properties of the source-control step
\* ------------------------------------------------------------------------

\* How often an operation occurs in a sequence of operations.
Times(op, ops) == Cardinality({i \in DOMAIN ops : ops[i] = op})

\* C21: whenever local changes were applied, a token was given and
\* GitHubClient.open_pr yielded an error result (and no pull request was
\* opened by another route), the printed status is 'partial', never
\* 'success'.
C21_PullRequestFailureIsPartial ==
    (/\ cli_pc = "returned"
     /\ github_token
     /\ total_changed > 0
     /\ "error" \in DOMAIN pr
     /\ Times("gh_pr_create", vcs) = 0)
    => printed[Len(printed)] = "partial"

\* C26: within one invocation the pull-request creation and the LLM call
\* are each attempted at most once: after the API client failed, no second
\* attempt at creating the pull request follows by any means.
C26_NoRetry ==
    /\ Len(llm_calls) <= 1
    /\ Times("open_pr", vcs) + Times("gh_pr_create", vcs) <= 1

\* C27: every planned update is applied, its updated count summed, before
\* any source-control operation; at most one commit and one push are made;
\* and no source-control operation happens where the summed count is 0 or
\* no token was given.
C27_ApplyAllThenOneCommit ==
    /\ apply_calls = <<>> => total_changed = 0
    /\ apply_calls = SubSeq(updates, 1, Len(apply_calls))
    /\ Times("commit", vcs) <= 1
    /\ Times("push", vcs) <= 1
    /\ vcs # <<>> => /\ apply_calls = updates
                     /\ total_changed > 0
                     /\ github_token

\* C27 witness: two planned updates were both applied and one commit and
\* one push followed.
C27_Witness ==
    /\ cli_pc = "returned"
    /\ Len(updates) = 2
    /\ apply_calls = updates
    /\ Times("commit", vcs) = 1
    /\ Times("push", vcs) = 1


\* ------------------------------------------------------------------------
\* cli.update_mappings_by_name as a state machine
\* ------------------------------------------------------------------------

\* update_mappings_by_name passes include_locale_files=True.
ByNameArgs == {a \in ArgsPool : a.include_locale_files}

\* The command is entered with or without a token; the configuration loads
\* and the artifact store is writable.
ByNameInit ==
    /\ cli_pc = "by_name"
    /\ github_token \in BOOLEAN
    /\ llm_cfg = [provider |-> <<>>, openai_api_key |-> FALSE]
    /\ app_cfg = [platform |-> "react_native", exact_map |-> <<>>,
                  patterns |-> <<>>]
    /\ app_ids = <<>>
    /\ rule_mapped = {}
    /\ updates_rb = <<>>
    /\ llm_calls = <<>>
    /\ resp = None
    /\ llm_suggestions = <<>>
    /\ updates = <<>>
    /\ run_prompt = None
    /\ run_workspace = ""
    /\ validation = None
    /\ artifacts = <<>>
    /\ ledger = <<>>
    /\ printed = <<>>
    /\ cli_exc = None
    /\ apply_calls = <<>>
    /\ total_changed = 0
    /\ vcs = <<>>
    /\ pr = None

InitByName == OrchIdle /\ MapInit /\ LibIdle /\ ByNameInit

\* The update across the modules, its result artifact, and the noop where
\* the result counts no updated file.
ByNameUpdate ==
    /\ cli_pc = "by_name"
    /\ \E args \in ByNameArgs :
         LET r == update_logical_name_across_modules(repo, root_isdir, args, ruamel)
         IN /\ repo' = r.repo
            /\ repoBefore' = repo
            /\ mret' = [r EXCEPT !.repo = <<>>]
            /\ written' = r.written
            /\ lastArgs' = args
            /\ repeat' = (args = lastArgs)
            /\ IF r.updated = 0
               THEN /\ printed' = Append(printed, "noop")
                    /\ cli_pc' = "returned"
               ELSE /\ UNCHANGED printed
                    /\ cli_pc' = "by_name_pr"
    /\ artifacts' = Append(artifacts, "bulk_update_result.json")
    /\ UNCHANGED <<root_isdir, ruamel, procs>>
    /\ UNCHANGED <<llm_cfg, app_cfg, app_ids, rule_mapped, updates_rb,
                   llm_calls, resp, llm_suggestions, updates, run_prompt,
                   run_workspace, validation, ledger, cli_exc>>
    /\ UNCHANGED prVars
    /\ UNCHANGED <<orchVars, libVars>>

\* The branch, the commit, the push and the pull request, where a token was
\* given.
ByNamePullRequest ==
    /\ cli_pc = "by_name_pr"
    /\ IF github_token
       THEN \E env \in PrEnvs :
              LET r == PullRequestStep(env) IN
              /\ vcs' = r.vcs
              /\ pr' = r.pr
              /\ printed' = Append(printed, r.status)
              /\ artifacts' = IF r.pr = None THEN artifacts
                              ELSE Append(artifacts, "pull_request.json")
       ELSE /\ printed' = Append(printed, "success")
            /\ UNCHANGED <<vcs, pr, artifacts>>
    /\ cli_pc' = "returned"
    /\ UNCHANGED <<llm_cfg, app_cfg, app_ids, rule_mapped, updates_rb,
                   llm_calls, resp, llm_suggestions, updates, run_prompt,
                   run_workspace, validation, ledger, cli_exc, github_token,
                   apply_calls, total_changed>>
    /\ UNCHANGED notCliVars

NextByName ==
    \/ ByNameUpdate
    \/ ByNamePullRequest

SpecByName == InitByName /\ [][NextByName]_vars

\* C23: status 'noop' is printed only when no step failed, never when the
\* modules directory was missing or a mapping document was skipped with an
\* error; and 'success' is printed only when at least one file was changed.
C23_NoopOnlyWhenNothingFailed ==
    (cli_pc = "returned" /\ Called) =>
        /\ printed[Len(printed)] = "noop" =>
              /\ root_isdir
              /\ \A i \in DOMAIN mret.files : mret.files[i].error = "none"
        /\ printed[Len(printed)] = "success" => mret.updated >= 1


\* ------------------------------------------------------------------------
\* Properties of generate_ios_locator_patch
\* ------------------------------------------------------------------------

\* The target label as claimed: the quoted value of the `label` predicate
\* when the old locator is one, otherwise the whole input.
QuotedLabelValue(old) ==
    IF \E l \in TreeLabels : old = LabelPredicate(l)
    THEN CHOOSE l \in TreeLabels : old = LabelPredicate(l)
    ELSE old

\* The generator was called on a tree that has a labeled button.
PatchCalled ==
    /\ call.fn = "generate_ios_locator_patch"
    /\ call.parses
    /\ find_button_label_candidates(call.root) # <<>>

\* C31: the label chosen is the first candidate label that contains the
\* target label, case ignored, and is not identical to it; only if there is
\* none, the first candidate label. The target label is the quoted value of
\* the `label` predicate of the old locator, otherwise the whole input.
C31_LabelSelection ==
    PatchCalled =>
        LET target == QuotedLabelValue(call.old)
            candidates == find_button_label_candidates(call.root)
            hits == {i \in DOMAIN candidates :
                        /\ Contains(lower(candidates[i]), lower(target))
                        /\ candidates[i] # target}
        IN /\ call.result # None
           /\ call.result.label =
                 IF hits # {}
                 THEN candidates[CHOOSE i \in hits : \A j \in hits : i <= j]
                 ELSE candidates[1]


\* The tree holds a Button-typed node with a non-empty label.
HasLabeledButton(root) ==
    LET nodes == iter_nodes_DocumentOrder(<<root>>) IN
    \E i \in DOMAIN nodes :
        EndsWithButton(nodes[i].type) /\ nodes[i].label # <<>>

\* C32: generate_ios_locator_patch returns null if and only if the snapshot
\* fails to parse or holds no Button-typed node with a non-empty label; in
\* every other case it returns a candidate with a strategy and a value.
C32_NullIffNoParseOrNoButton ==
    call.fn = "generate_ios_locator_patch" =>
        /\ call.result = None <=>
              (IF call.parses THEN ~HasLabeledButton(call.root) ELSE TRUE)
        /\ call.result # None =>
              /\ call.result.strategy \in {"accessibility_id", "ios_predicate"}
              /\ call.result.value # <<>>

\* C32 witness: a snapshot that parses and holds a labeled element, yet no
\* labeled button, gave null.
C32_Witness ==
    /\ call.fn = "generate_ios_locator_patch"
    /\ call.parses
    /\ call.root =
          Other(<<Node("XCUIElementTypeStaticText", Pay, <<>>, <<>>, <<>>)>>)
    /\ call.result = None

\* The node the chosen label was taken from: the first labeled button of the
\* traversal that carries it.
LabelSource(root, label) ==
    LET nodes == iter_nodes(<<root>>) IN
    nodes[CHOOSE i \in DOMAIN nodes :
              /\ EndsWithButton(nodes[i].type) /\ nodes[i].label = label
              /\ \A j \in 1..(i - 1) :
                    ~(EndsWithButton(nodes[j].type) /\ nodes[j].label = label)]

\* C33: the candidate is an accessibility_id exactly when prefer_accessibility
\* is set and the button selected for the chosen label carries a non-empty
\* name or accessibilityIdentifier, the name first; otherwise it is an
\* ios_predicate built from the chosen label. The accessibility id is that
\* of the node whose label was selected.
C33_StrategyTag ==
    (call.fn = "generate_ios_locator_patch" /\ call.result # None) =>
        LET n == LabelSource(call.root, call.result.label)
            id == IF n.name # <<>> THEN n.name ELSE n.aid
        IN IF call.prefer_accessibility /\ id # <<>>
           THEN /\ call.result.strategy = "accessibility_id"
                /\ call.result.value = id
           ELSE /\ call.result.strategy = "ios_predicate"
                /\ call.result.value = LabelPredicate(call.result.label)

\* C33 witness: of two buttons with the chosen label the selected one has no
\* name, the other has: the candidate is a predicate, with the preference
\* set.
C33_Witness ==
    /\ call.fn = "generate_ios_locator_patch"
    /\ call.prefer_accessibility
    /\ call.root = Other(<<Button(Pay, CheckoutAccId, <<>>),
                           Button(Pay, <<>>, <<>>)>>)
    /\ call.result # None
    /\ call.result.strategy = "ios_predicate"


\* ------------------------------------------------------------------------
\* Properties of the writes of a mapping update
\* ------------------------------------------------------------------------

\* A platform list of a document as _load_yaml reads it, each record by its
\* name and the text of its identifier.
ReadValues(f, key) ==
    LET l == LoadedList(f, key) IN
    [present |-> l.present,
     items |-> [i \in DOMAIN l.items |->
                  [dict |-> l.items[i].dict, name |-> l.items[i].name,
                   identifier |-> l.items[i].identifier.chars]]]

\* The new identifier the last call brought for the platform of the path.
NewIdentifierFor(path) ==
    IF platform_from_filename(path[2]) = "android" THEN lastArgs.android
    ELSE lastArgs.ios

\* Before the last call a record named logical_name in the platform list of
\* the document had an identifier different from the new one.
HadDifferentIdentifier(path) ==
    LET l == ReadValues(repoBefore[path], platform_from_filename(path[2])) IN
    \E i \in DOMAIN l.items :
        /\ l.items[i].dict
        /\ l.items[i].name = lastArgs.logical_name
        /\ l.items[i].identifier # NewIdentifierFor(path)

C35_FuzzyResolution ==
    call.fn = "map_by_fuzzy" =>
        LET m == call.exact_map
            base == normalize_base(call.value)
            prefixes == {i \in DOMAIN m :
                            \/ StartsWith(call.value, m[i][1])
                            \/ StartsWith(base, m[i][1])}
        IN /\ base \in Keys(m) => call.result = Lookup(m, base)
           /\ (base \notin Keys(m) /\ prefixes # {}) =>
                 \E i \in prefixes : call.result = m[i][2]
           /\ (base \notin Keys(m) /\ prefixes = {}) => call.result = None
           /\ \A m2 \in FuzzyMaps :
                 Range(m2) = Range(m) =>
                    map_by_fuzzy(call.value, m2) = call.result


\* ------------------------------------------------------------------------
\* The persisted and the returned result of run_once
\* ------------------------------------------------------------------------

\* The fields a validation result always has.
ResultFields == {"status", "platform", "suggestion", "diff"}

\* C36: when run_once has returned a healed or failed_validation result, the
\* validation_result record it persisted has the same status, platform,
\* suggestion and diff, and carries rolled_back true whenever the returned
\* record does.
C36_PersistedIsReturned ==
    (pc = "done" /\ ret.status \in {"healed", "failed_validation"}) =>
        \E i \in DOMAIN store :
            LET p == store[i].value IN
            /\ store[i].name = "validation_result"
            /\ ResultFields \subseteq DOMAIN p
            /\ ResultFields \subseteq DOMAIN ret
            /\ \A k \in ResultFields : p[k] = ret[k]
            /\ ("rolled_back" \in DOMAIN ret /\ ret.rolled_back) =>
                  ("rolled_back" \in DOMAIN p /\ p.rolled_back)

\* C36 witness: an ios cycle returned a healed result after persisting it.
C36_Witness ==
    /\ pc = "done"
    /\ ret.status = "healed"
    /\ platform = "ios"
    /\ Stored("validation_result")


\* ------------------------------------------------------------------------
\* cli.update_mappings_from_app run twice on one tests repo
\* ------------------------------------------------------------------------

\* The text of a platform locator: "" for none, else the XPath, which begins
\* with "/"; the pieces around the identifier stand for their characters.
LocatorText(loc) ==
    CASE loc.kind = "empty" -> <<>>
      [] loc.kind = "name" -> <<"/", "/*[@name='">> \o loc.id \o <<"']">>
      [] loc.kind = "content-desc|resource-id" ->
           <<"/", "/*[@content-desc='">> \o loc.id
           \o <<"'] | //*[@resource-id='">> \o loc.id \o <<"']">>
      [] OTHER ->
           <<"/", "/*[@resource-id='">> \o loc.id
           \o <<"'] | //*[@content-desc='">> \o loc.id \o <<"']">>

\* The update list the command plans from the app configuration, the
\* discovered identifiers and the provider, with no logical filter: the
\* rule-based updates, then the suggestions of the provider for the
\* identifiers still unmapped.
PlannedUpdates(cfg, id_list, llm) ==
    LET resolved == RuleResolved(cfg, id_list)
        rb == [i \in DOMAIN resolved |-> RuleUpdate(cfg, resolved[i])]
        unmapped == Unmapped(id_list, Range(resolved))
        suggestions ==
            IF unmapped = <<>> THEN <<>>
            ELSE SuggestionsOf(
                     generate_patch(get_llm(llm.provider, llm.openai_api_key),
                                    [task |-> "map_identifiers",
                                     platform |-> cfg.platform,
                                     identifiers |-> unmapped]))
    IN Merge(rb, suggestions)

\* The discovered identifiers of the two runs: the identifier lists, and two
\* identifiers that differ in a separator only.
TwiceIdLists == IdLists \cup {<< <<"c", ":", "d">>, <<"c", "-", "d">> >>}

\* The providers of the two runs: the local OpenAI-like one and the stub.
TwiceLlmConfigs ==
    {c \in LlmConfigs :
        /\ c.provider \in {<<"O", "p", "e", "n", "A", "I">>, <<"S", "T", "U", "B">>}
        /\ ~c.openai_api_key}

\* The mapping documents of the tests repo: one android and one ios document
\* in module m1, each with a record for a configured and for a guessed
\* logical name.
TwiceDoc(key) ==
    LET l == List(<<Item(PyStr("LE"), Scalar("plain", Old)),
                    Item(GuessedLogical(<<"c", ":", "d">>), Scalar("plain", Old))>>)
    IN IF key = "android" THEN Yaml(l, NoKey, TRUE) ELSE Yaml(NoKey, l, TRUE)

TwiceRepos ==
    {[p \in AllPaths |->
        IF p = <<"m1", <<"mappings", "android">> >> /\ a THEN TwiceDoc("android")
        ELSE IF p = <<"m1", <<"mappings", "ios">> >> /\ i THEN TwiceDoc("ios")
        ELSE Missing] : a \in BOOLEAN, i \in BOOLEAN}

\* The first run is entered: no token, the configuration loads, the artifact
\* store is writable.
TwiceInit ==
    /\ cli_pc = "run1_plan"
    /\ llm_cfg \in TwiceLlmConfigs
    /\ app_cfg \in AppConfigs
    /\ app_ids \in TwiceIdLists
    /\ repo \in TwiceRepos
    /\ root_isdir = TRUE
    /\ ruamel \in BOOLEAN
    /\ repoBefore = repo
    /\ lastArgs = NoArgs
    /\ mret = NoReturn
    /\ written = {}
    /\ repeat = FALSE
    /\ procs = NoProcs
    /\ rule_mapped = {}
    /\ updates_rb = <<>>
    /\ llm_calls = <<>>
    /\ resp = None
    /\ llm_suggestions = <<>>
    /\ updates = <<>>
    /\ run_prompt = None
    /\ run_workspace = ""
    /\ validation = None
    /\ artifacts = <<>>
    /\ ledger = <<>>
    /\ printed = <<>>
    /\ cli_exc = None
    /\ PrIdle

InitTwice == OrchIdle /\ LibIdle /\ TwiceInit

\* The run that follows the step of a run that ended it.
AfterRun(at) == IF at \in {"run1_plan", "run1_apply"} THEN "run2_plan" ELSE "returned"

\* A run up to its plan, on the same sources, configuration and provider: an
\* unknown platform or an empty plan ends the run with a noop. The tests
\* repo as the second run finds it is noted.
TwicePlan ==
    /\ cli_pc \in {"run1_plan", "run2_plan"}
    /\ LET planned == IF app_cfg.platform \in
                            {"react_native", "ios_native", "android_native"}
                      THEN PlannedUpdates(app_cfg, app_ids, llm_cfg)
                      ELSE <<>>
       IN /\ updates' = planned
          /\ IF planned = <<>>
             THEN /\ printed' = Append(printed, "noop")
                  /\ cli_pc' = AfterRun(cli_pc)
             ELSE /\ UNCHANGED printed
                  /\ cli_pc' = IF cli_pc = "run1_plan" THEN "run1_apply"
                               ELSE "run2_apply"
    /\ apply_calls' = <<>>
    /\ total_changed' = 0
    /\ repoBefore' = repo
    /\ UNCHANGED <<repo, root_isdir, ruamel, lastArgs, mret, written, repeat,
                   procs>>
    /\ UNCHANGED <<llm_cfg, app_cfg, app_ids, rule_mapped, updates_rb,
                   llm_calls, resp, llm_suggestions, run_prompt, run_workspace,
                   validation, artifacts, ledger, cli_exc, github_token, vcs, pr>>
    /\ UNCHANGED <<orchVars, libVars>>

\* One turn of the loop over the updates: update_logical_name_across_modules
\* with the logical name and the two locators of the update.
TwiceApplyOne ==
    /\ cli_pc \in {"run1_apply", "run2_apply"}
    /\ ~LoopDone(apply_calls, updates)
    /\ LET u == updates[Len(apply_calls) + 1]
           args == [logical_name |-> u[1], android |-> LocatorText(u[2]),
                    ios |-> LocatorText(u[3]), include_locale_files |-> TRUE]
           r == update_logical_name_across_modules(repo, root_isdir, args, ruamel)
       IN /\ repo' = r.repo
          /\ total_changed' = total_changed + r.updated
          /\ apply_calls' = Append(apply_calls, u)
    /\ UNCHANGED <<root_isdir, ruamel, lastArgs, repoBefore, mret, written,
                   repeat, procs>>
    /\ UNCHANGED <<cli_pc, llm_cfg, app_cfg, app_ids, rule_mapped, updates_rb,
                   llm_calls, resp, llm_suggestions, updates, run_prompt,
                   run_workspace, validation, artifacts, ledger, printed,
                   cli_exc, github_token, vcs, pr>>
    /\ UNCHANGED <<orchVars, libVars>>

\* After the loop: the noop where nothing changed, else the success of a run
\* without a token.
TwiceSummary ==
    /\ cli_pc \in {"run1_apply", "run2_apply"}
    /\ LoopDone(apply_calls, updates)
    /\ printed' = Append(printed, IF total_changed = 0 THEN "noop" ELSE "success")
    /\ cli_pc' = AfterRun(cli_pc)
    /\ UNCHANGED mapVars
    /\ UNCHANGED <<llm_cfg, app_cfg, app_ids, rule_mapped, updates_rb,
                   llm_calls, resp, llm_suggestions, updates, run_prompt,
                   run_workspace, validation, artifacts, ledger, cli_exc>>
    /\ UNCHANGED prVars
    /\ UNCHANGED <<orchVars, libVars>>

NextTwice ==
    \/ TwicePlan
    \/ TwiceApplyOne
    \/ TwiceSummary

SpecTwice == InitTwice /\ [][NextTwice]_vars

\* C37: the second of two runs in a row, with unchanged sources,
\* configuration and provider responses, changes no mapping file: its summed
\* change count is 0 and its status is 'noop', for every set of discovered
\* identifiers, two identifiers that resolve to one logical name included.
C37_SecondRunIsNoop ==
    (cli_pc = "returned" /\ Len(printed) = 2) =>
        /\ total_changed = 0
        /\ printed[2] = "noop"
        /\ repo = repoBefore


\* ------------------------------------------------------------------------
\* Two invocations of update_logical_name_across_modules on one document
\* ------------------------------------------------------------------------

\* The two invocations.
ProcIds == {1, 2}

\* The places of the one mapping document of the tests repo.
ConcPaths == {<<"m1", <<"mappings", "android">> >>, <<"m2", <<"mappings", "ios">> >>}

\* The platform list of the document: a record named login and one named
\* other, in either order, with an old identifier or (login) none.
ConcLists ==
    {List(<<Item("login", Scalar("plain", Old)), Item("other", Scalar("plain", Old))>>),
     List(<<Item("other", Scalar("single", NewAndroid)), Item("login", NoField)>>),
     List(<<Item("other", Scalar("plain", Old)),
            Item("login", Scalar("double", Escape(NewIos)))>>)}

\* The new identifiers the invocations bring.
ConcIdentifiers == {NewAndroid, NewIos, <<"n", "2">>}

\* The document of the tests repo, where it is.
ConcDocPath == CHOOSE p \in ConcPaths : repo[p] # Missing
ConcPlatform == platform_from_filename(ConcDocPath[2])

\* Invocation 1 updates login, invocation 2 updates other; each brings the
\* same new identifier for both platforms. The tests repo holds one
\* document; both invocations are about to walk it.
ConcInit ==
    /\ root_isdir = TRUE
    /\ ruamel \in BOOLEAN
    /\ \E path \in ConcPaths, l \in ConcLists :
          repo = [p \in AllPaths |->
                    IF p # path THEN Missing
                    ELSE IF platform_from_filename(p[2]) = "android"
                    THEN Yaml(l, NoKey, TRUE)
                    ELSE Yaml(NoKey, l, TRUE)]
    /\ \E id1, id2 \in ConcIdentifiers :
          procs = [i \in ProcIds |->
                     [pc |-> "start",
                      args |-> [logical_name |-> IF i = 1 THEN "login" ELSE "other",
                                android |-> IF i = 1 THEN id1 ELSE id2,
                                ios |-> IF i = 1 THEN id1 ELSE id2,
                                include_locale_files |-> TRUE],
                      doc |-> None,
                      overlapped |-> FALSE]]
    /\ repoBefore = repo
    /\ lastArgs = NoArgs
    /\ mret = NoReturn
    /\ written = {}
    /\ repeat = FALSE

InitConc == OrchIdle /\ ConcInit /\ LibIdle /\ CliIdle

\* doc = _load_yaml(path) of an invocation: the document as the file holds
\* it now. The invocation overlaps the other one when that one has loaded
\* and not yet saved.
ConcLoad(i) ==
    /\ procs # NoProcs
    /\ procs[i].pc = "start"
    /\ LET loaded == load_yaml(repo[ConcDocPath], ruamel)
           inflight == \E j \in ProcIds \ {i} : procs[j].pc = "loaded"
       IN procs' = [j \in ProcIds |->
                      IF j = i
                      THEN [procs[j] EXCEPT
                              !.pc = IF loaded.tag = "raised" THEN "done"
                                     ELSE "loaded",
                              !.doc = loaded,
                              !.overlapped = inflight]
                      ELSE [procs[j] EXCEPT !.overlapped = @ \/ inflight]]
    /\ UNCHANGED <<repo, root_isdir, ruamel, lastArgs, repoBefore, mret,
                   written, repeat>>
    /\ UNCHANGED notMapVars

\* The mutated write: the document is saved as it was loaded.
ConcSave_AsLoaded(i) ==
    /\ procs # NoProcs
    /\ procs[i].pc = "loaded"
    /\ LET a == procs[i].args
           um == update_mapping(procs[i].doc, ConcPlatform, a.logical_name,
                                a[ConcPlatform], ruamel)
       IN /\ repo' = IF um.tag = "ok" /\ um.changed
                     THEN [repo EXCEPT ![ConcDocPath] = save_yaml(procs[i].doc)]
                     ELSE repo
          /\ procs' = [procs EXCEPT ![i].pc = "done"]
    /\ UNCHANGED <<root_isdir, ruamel, lastArgs, repoBefore, mret, written,
                   repeat>>
    /\ UNCHANGED notMapVars

\* changed = _update_mapping(doc, ...); if changed: _save_yaml(path, doc), of
\* an invocation: the document it loaded, with its update, replaces the file.
ConcSave(i) ==
    /\ procs # NoProcs
    /\ procs[i].pc = "loaded"
    /\ LET a == procs[i].args
           um == update_mapping(procs[i].doc, ConcPlatform, a.logical_name,
                                a[ConcPlatform], ruamel)
       IN /\ repo' = IF um.tag = "ok" /\ um.changed
                     THEN [repo EXCEPT ![ConcDocPath] = save_yaml(um.doc)]
                     ELSE repo
          /\ procs' = [procs EXCEPT ![i].pc = "done"]
    /\ UNCHANGED <<root_isdir, ruamel, lastArgs, repoBefore, mret, written,
                   repeat>>
    /\ UNCHANGED notMapVars

NextConc ==
    \/ \E i \in ProcIds : ConcLoad(i)
    \/ \E i \in ProcIds : ConcSave(i)

SpecConc == InitConc /\ [][NextConc]_vars

\* Both invocations have ended; they overlapped.
BothDone == procs # NoProcs /\ \A i \in ProcIds : procs[i].pc = "done"
Overlapped == procs # NoProcs /\ \E i \in ProcIds : procs[i].overlapped

\* The document holds the new identifier of the invocation in every record
\* of its logical name.
HoldsNewIdentifier(i) ==
    LET l == ReadValues(repo[ConcDocPath], ConcPlatform) IN
    \A k \in DOMAIN l.items :
        (l.items[k].dict /\ l.items[k].name = procs[i].args.logical_name) =>
            l.items[k].identifier = procs[i].args[ConcPlatform]

\* C38: when the two invocations for different logical names ran one after
\* the other, in either order, the final document holds both new
\* identifiers; a final document that holds only one of them (a lost
\* update) comes from invocations whose load and save steps interleaved.
C38_SequentialKeepsBoth ==
    (BothDone /\ ~Overlapped) =>
        (HoldsNewIdentifier(1) /\ HoldsNewIdentifier(2))

\* C38 witness: the load and save steps of the two invocations interleaved
\* and the final document holds the new identifier of one of them only.
C38_Witness ==
    /\ BothDone /\ Overlapped
    /\ HoldsNewIdentifier(1) # HoldsNewIdentifier(2)

====
